---- MODULE Spec2Model ----
(***************************************************************************)
(* replaCy: suggestion generation and selection for one accepted match.    *)
(*                                                                         *)
(* A match flows through                                                   *)
(*   RefMatcher.__call__            (align span tokens with pattern slots) *)
(*   SuggestionGenerator.__call__   (resolve the items of each template)   *)
(*   process_suggestions            (bounded Cartesian product)            *)
(*   sorter, filter, joiner         (the default pipeline stages)          *)
(*                                                                         *)
(* Python lists are sequences; Python's 0-based indices are kept in the    *)
(* values the program stores (pattern_ref keys and positions, template     *)
(* ids) and shifted by one only where a TLA+ sequence is indexed.          *)
(* A text is a sequence of atoms (words and separators), so that joining   *)
(* and slicing are computed and not assumed.                               *)
(***************************************************************************)
EXTENDS Integers, Sequences, FiniteSets, TLC

VARIABLES
    pc,                     \* position of the call: which step ran last
    pattern,                \* the matched rule's pattern
    span,                   \* the tokens of the accepted match, doc[start:end]
    pattern_ref,            \* the mapping returned by RefMatcher.__call__
    matcher_runs,           \* runs of the matcher made by RefMatcher.__call__
    pre_suggestions,        \* the rule's suggestion templates
    ref_warned,             \* number of warnings emitted by get_options
    variants,               \* per template, the SuggestionVariants of its kept items
    max_suggestions_count,  \* ReplaceMatcher.max_suggestions_count
    suggestions,            \* span._.suggestions of the match
    warned,                 \* number of warnings emitted by process_suggestions
    separator,              \* the span's suggestions_separator
    pipeline,               \* ReplaceMatcher.pipeline: the names of its stages, in order
    request,                \* the last call of the pipeline API and whether it raised
    spans,                  \* ReplaceMatcher.spans: the span buffer of the engine
    matcher,                \* the keys held by the matcher of the engine's RefMatcher
    calls,                  \* per caller, the locals of its call of the engine
    scorer,                 \* the scorer of the engine: "default" or "kenlm"
    context,                \* the words of the sentence before and after the span
    scored,                 \* the scores the scorer returned to the last sort
    match_hooks,            \* the rule's match_hook list, each hook with its value on the match
    predicates,             \* the predicates the callback of the rule closes over
    template_item,          \* a template item under resolution, with what the inflector gives
    resolved,               \* what the generator made of the item
    generator               \* SuggestionGenerator: filter_suggestions and default_max_count

matchVars == <<pattern, span, pattern_ref, matcher_runs, pre_suggestions, ref_warned>>

\* the state of the engine that outlives the call for one match
sorterVars == <<scorer, context, scored>>

\* the state of the hooks of a rule and of the resolution of one item
ruleVars == <<match_hooks, predicates, template_item, resolved, generator>>

engineVars == <<pipeline, request, spans, matcher, calls, sorterVars, ruleVars>>

\* the state of the call for one match
callVars == <<pc, pattern, span, pattern_ref, matcher_runs, pre_suggestions, ref_warned,
              variants, max_suggestions_count, suggestions, warned, separator>>

vars == <<pc, pattern, span, pattern_ref, matcher_runs, pre_suggestions, ref_warned,
          variants, max_suggestions_count, suggestions, warned, separator,
          pipeline, request, spans, matcher, calls, scorer, context, scored,
          match_hooks, predicates, template_item, resolved, generator>>

(***************************************************************************)
(* Bounds of the model.                                                    *)
(***************************************************************************)
MaxOptions == 4     \* options of all items of all templates of the match, in total
MaxCount   == 2     \* the custom max_count of a slot
MaxCap     == 4     \* largest configured max_suggestions_count
MaxScore   == 1     \* the scorer's scores are 0..MaxScore
MaxJoin    == 3     \* suggestions of a span handed to the joiner alone
MaxPattern == 3     \* slots of a pattern
MaxSpan    == 3     \* tokens of an accepted match
MaxStages  == 4     \* stages of the pipeline
MaxMatches == 2     \* accepted matches of a sentence
MaxCalls   == 2     \* calls a caller makes one after the other

(***************************************************************************)
(* Values.                                                                 *)
(***************************************************************************)
\* Suggestion.max_count is None: the slot has no cap.  A kept slot never has
\* max_count 0 (0 is falsy in get_item_max_count and a slot with no options is
\* dropped), so 0 stands for None.
NoCap == 0

Alphabet == <<"a", "b", "c", "d", "e", "f", "g", "h">>

Separators == {" ", "-"}

\* a one-word text
Word(w) == <<w>>

\* the option lists an item can resolve to: k different words, or k words whose
\* last repeats the first (an inflection that returns a form twice)
Options(k, dup) ==
    [i \in 1..k |-> IF dup /\ i = k /\ k > 1 THEN Word(Alphabet[1]) ELSE Word(Alphabet[i])]

\* the three cases of eliminate_options: no cap, exclusive, a custom cap
Caps == {NoCap, 1, MaxCount}

\* class SuggestionVariants
SuggestionVariants(cased_options, max_count, id) ==
    [cased_options |-> cased_options, max_count |-> max_count, id |-> id]

\* class Suggestion
Suggestion(text, max_count, id) ==
    [text |-> text, max_count |-> max_count, id |-> id]

\* SuggestionVariants.__iter__: one Suggestion per option, in order
VariantIter(v) ==
    [i \in 1..Len(v.cased_options) |-> Suggestion(v.cased_options[i], v.max_count, v.id)]

\* an entry of span._.suggestions: a candidate (list of Suggestion) or a str
Cand(c) == [kind |-> "cand", cand |-> c, str |-> <<>>]
Str(s)  == [kind |-> "str", cand |-> <<>>, str |-> s]

RECURSIVE Flatten(_)
Flatten(ss) == IF ss = <<>> THEN <<>> ELSE Head(ss) \o Flatten(Tail(ss))

RECURSIVE SumSeq(_)
SumSeq(s) == IF s = <<>> THEN 0 ELSE Head(s) + SumSeq(Tail(s))

Min(S) == CHOOSE x \in S : \A y \in S : x <= y
Max(S) == CHOOSE x \in S : \A y \in S : y <= x

(***************************************************************************)
(* The token matcher (spaCy's Matcher, used through its interface): a      *)
(* pattern is a sequence of slots, each a token test with an operator;     *)
(* the matcher yields every (key, start, end) whose tokens the pattern of  *)
(* that key accepts, and never an empty match.                             *)
(*   attr: the token text the slot asks for, "none" when the slot has no   *)
(*         attribute (it accepts every token), "never" for the dummy text  *)
(*         "alice and bob", which no single token has                      *)
(*   op:   "1" (no OP key), "?", "*", "+", "!"                             *)
(***************************************************************************)
Tokens == {"x", "y"}

Slot(attr, op) == [attr |-> attr, op |-> op]

TokenMatches(tok, p) == p.attr = "none" \/ p.attr = tok

\* the positions at which a slot with "*" can end when it starts at position
\* pos of toks: it takes any number of the tokens it accepts
Repeat(p, toks, pos) ==
    {q \in pos..Len(toks) : \A t \in (pos + 1)..q : TokenMatches(toks[t], p)}

\* the positions at which the one slot p can end when it starts at pos
Step(p, toks, pos) ==
    LET more == pos < Len(toks)
        hit == more /\ TokenMatches(toks[pos + 1], p)
    IN  CASE p.op = "1" -> IF hit THEN {pos + 1} ELSE {}
          [] p.op = "!" -> IF more /\ ~hit THEN {pos + 1} ELSE {}
          [] p.op = "?" -> {pos} \cup (IF hit THEN {pos + 1} ELSE {})
          [] p.op = "*" -> Repeat(p, toks, pos)
          [] p.op = "+" -> Repeat(p, toks, pos) \ {pos}

\* the positions at which the slots pat[lo..hi] can end when they start at
\* position pos of toks (positions count the tokens consumed so far); the
\* slots are taken half by half, the second half from where the first ends
RECURSIVE Slots(_, _, _, _, _)
Slots(pat, lo, hi, toks, pos) ==
    IF lo > hi THEN {pos}
    ELSE IF lo = hi THEN Step(pat[lo], toks, pos)
    ELSE LET mid == (lo + hi) \div 2
         IN  UNION {Slots(pat, mid + 1, hi, toks, q) : q \in Slots(pat, lo, mid, toks, pos)}

\* the positions at which pat[k..] can end when it starts at position pos
Ends(pat, k, toks, pos) == Slots(pat, k, Len(pat), toks, pos)

\* matcher(doc) with one pattern: the (start, end) of its matches
MatchesOf(pat, toks) ==
    {m \in (0..Len(toks)) \X (0..Len(toks)) :
        m[1] < m[2] /\ m[1] < Len(toks) /\ m[2] \in Ends(pat, 1, toks, m[1])}

\* the pattern matches the whole of toks
FullMatch(pat, toks) == <<0, Len(toks)>> \in MatchesOf(pat, toks)

\* pattern[i:] and span[i:], i a Python index
Crop(seq, i) == SubSeq(seq, i + 1, Len(seq))

(***************************************************************************)
(* Python dicts keep the insertion order of their keys: a dict is the      *)
(* sequence of its items.                                                  *)
(***************************************************************************)
Item(k, v) == [k |-> k, v |-> v]
Keys(d) == {d[i].k : i \in 1..Len(d)}
Get(d, k) == d[CHOOSE i \in 1..Len(d) : d[i].k = k].v
Put(d, k, v) ==
    IF k \in Keys(d) THEN [i \in 1..Len(d) |-> IF d[i].k = k THEN Item(k, v) ELSE d[i]]
    ELSE Append(d, Item(k, v))

\* {k: [k] for k in range(n)}
IdentityRef(n) == [i \in 1..n |-> Item(i - 1, <<i - 1>>)]

(***************************************************************************)
(* RefMatcher                                                              *)
(***************************************************************************)
is_negative(p) == p.op = "!"
is_droppable(p) == p.op \in {"*", "?"}
is_multitoken(p) == p.op \in {"*", "+"}
HasOp(p) == p.op # "1"

\* the copy of the pattern in which droppable slot op (a Python index) must take
\* a token: "?" loses its OP (a slot with no other key first gets the dummy
\* text and OP "!", and then loses that OP too), "*" becomes "+"
op_pattern(pat, op) ==
    LET p == pat[op + 1]
        q == IF p.op = "?"
             THEN (IF p.attr = "none" THEN Slot("never", "1") ELSE Slot(p.attr, "1"))
             ELSE Slot(p.attr, "+")
    IN  [pat EXCEPT ![op + 1] = q]

\* the keys of the variants that still match the whole span
max_matches(sp, pat) ==
    {op \in 0..(Len(pat) - 1) :
        is_droppable(pat[op + 1]) /\ FullMatch(op_pattern(pat, op), sp)}

\* slot i (a Python index) is left out of non_op_pattern
Skipped(sp, pat, i) ==
    /\ HasOp(pat[i + 1])
    /\ i \notin max_matches(sp, pat)
    /\ ~is_negative(pat[i + 1])

\* the slot that non_op_pattern gets for a kept slot p
Required(p) ==
    IF p.op = "+" THEN (IF p.attr = "none" THEN Slot("never", "!") ELSE Slot(p.attr, "1"))
    ELSE IF p.op = "*" THEN Slot(p.attr, "+")
    ELSE p

\* the Python indexes of the slots of pat from index i on
IndexesFrom(pat, i) == [j \in 1..(Len(pat) - i) |-> i + j - 1]

NonOpFrom(sp, pat, i) ==
    LET kept == SelectSeq(IndexesFrom(pat, i), LAMBDA k : ~Skipped(sp, pat, k))
    IN  [j \in 1..Len(kept) |-> Required(pat[kept[j] + 1])]

SkippedFrom(sp, pat, i) ==
    SelectSeq(IndexesFrom(pat, i), LAMBDA k : Skipped(sp, pat, k))

remove_skipped_ops(sp, pat) ==
    [non_op_pattern |-> NonOpFrom(sp, pat, 0),
     skipped_idx |-> SkippedFrom(sp, pat, 0)]

\* insert_empty_idx moving only the keys after idx
insert_empty_idx_after(pref, idx) ==
    Put([i \in 1..Len(pref) |->
            IF pref[i].k > idx
            THEN Item(pref[i].k + 1, pref[i].v)
            ELSE pref[i]],
        idx, <<>>)

insert_empty_idx(pref, idx) ==
    Put([i \in 1..Len(pref) |->
            IF pref[i].k >= idx
            THEN Item(pref[i].k + 1, pref[i].v)
            ELSE pref[i]],
        idx, <<>>)

RECURSIVE shift_pattern_ref(_, _)
shift_pattern_ref(pref, skipped_idx) ==
    IF skipped_idx = <<>> THEN pref
    ELSE shift_pattern_ref(insert_empty_idx(pref, Head(skipped_idx)),
                           Tail(skipped_idx))

\* case III, C: the matches of the cropped patterns (key i is
\* non_op_pattern[i:]) in the cropped span span[i:]
Rematch(non_op_pattern, doc) ==
    {m \in (0..(Len(non_op_pattern) - 1)) \X (0..Len(doc)) \X (0..Len(doc)) :
        <<m[2], m[3]>> \in MatchesOf(Crop(non_op_pattern, m[1]), doc)}

\* max(m, key=lambda x: x[2] - x[1]) returns the first longest match of the
\* matcher's list, whose order the matcher's interface does not fix: the keys
\* of the longest matches
LongestKeys(m) ==
    {x[1] : x \in {y \in m : \A z \in m : z[3] - z[2] <= y[3] - y[2]}}

\* case III, D: the dicts the loop over the cropped spans can build from
\* span position i on
RECURSIVE RefsFrom(_, _, _, _)
RefsFrom(sp, non_op_pattern, i, pref) ==
    IF i >= Len(sp) THEN {pref}
    ELSE LET m == Rematch(non_op_pattern, Crop(sp, i))
         IN  IF m = {} THEN RefsFrom(sp, non_op_pattern, i + 1, pref)
             ELSE UNION {RefsFrom(sp, non_op_pattern, i + 1,
                             IF m_id \in Keys(pref)
                             THEN Put(pref, m_id, Append(Get(pref, m_id), i))
                             ELSE Put(pref, m_id, <<i>>)) :
                         m_id \in LongestKeys(m)}

\* a RefMatcher.__call__ without case I: it always asks the matcher
ref_matcher_rematching(sp, pat) ==
    LET r == remove_skipped_ops(sp, pat)
    IN  IF /\ Len(sp) = Len(r.non_op_pattern)
           /\ ~\E i \in 1..Len(r.non_op_pattern) : is_multitoken(r.non_op_pattern[i])
        THEN {[pattern_ref |->
                   shift_pattern_ref(IdentityRef(Len(r.non_op_pattern)), r.skipped_idx),
               runs |-> 1]}
        ELSE {[pattern_ref |-> shift_pattern_ref(d, r.skipped_idx),
               runs |-> 1 + Len(sp)] :
                   d \in RefsFrom(sp, r.non_op_pattern, 0, <<>>)}

\* RefMatcher.__call__: the mappings it can return, each with the number of
\* runs of the matcher it took
ref_matcher(sp, pat) ==
    IF Len(sp) = Len(pat) /\ ~\E i \in 1..Len(pat) : HasOp(pat[i])
    THEN {[pattern_ref |-> IdentityRef(Len(pat)), runs |-> 0]}
    ELSE LET r == remove_skipped_ops(sp, pat)
         IN  IF /\ Len(sp) = Len(r.non_op_pattern)
                /\ ~\E i \in 1..Len(r.non_op_pattern) : is_multitoken(r.non_op_pattern[i])
             THEN {[pattern_ref |->
                        shift_pattern_ref(IdentityRef(Len(r.non_op_pattern)), r.skipped_idx),
                    runs |-> 1]}
             ELSE {[pattern_ref |-> shift_pattern_ref(d, r.skipped_idx),
                    runs |-> 1 + Len(sp)] :
                        d \in RefsFrom(sp, r.non_op_pattern, 0, <<>>)}

(***************************************************************************)
(* SuggestionGenerator                                                     *)
(***************************************************************************)
\* the texts of the doc of a match, which has a token before the span and a
\* token after it: the text of a token is the word named after its position
TokenTexts == <<"w0", "w1", "w2", "w3", "w4", "w5", "w6", "w7", "w8", "w9">>
DocOf(sp) == SubSeq(TokenTexts, 1, Len(sp) + 2)
StartOf(sp) == 1
EndOf(sp) == 1 + Len(sp)

\* doc[lo : hi + 1].text: the tokens lo..hi (Python indices) and the
\* whitespace between them
RECURSIVE SliceText(_, _, _)
SliceText(doc, lo, hi) ==
    IF lo > hi THEN <<>>
    ELSE IF lo = hi THEN <<doc[lo + 1]>>
    ELSE <<doc[lo + 1], " ">> \o SliceText(doc, lo + 1, hi)

\* doc[i] raises IndexError outside -len(doc)..len(doc)-1
InDoc(doc, i) == -Len(doc) <= i /\ i < Len(doc)
DocAt(doc, i) == IF i >= 0 THEN doc[i + 1] ELSE doc[Len(doc) + i + 1]

\* the items of a suggestion template
TextItem(options) == [kind |-> "TEXT", options |-> options, ref |-> 0, max_count |-> NoCap]
RefItem(ref) == [kind |-> "PATTERN_REF", options |-> <<>>, ref |-> ref, max_count |-> NoCap]

\* the try blocks of get_options: the text of the tokens min..max of the
\* slot's list, None (here the empty text) when the list is empty
RefdText(doc, start, refd_tokens) ==
    IF Len(refd_tokens) > 0
    THEN LET idx == {refd_tokens[i] : i \in 1..Len(refd_tokens)}
         IN  SliceText(doc, start + Min(idx), start + Max(idx))
    ELSE <<>>

\* get_options: the options of an item, whether it warned, whether it raised
get_options(item, doc, start, end, pref) ==
    IF item.kind = "TEXT"
    THEN [options |-> item.options, warning |-> 0, raised |-> FALSE]
    ELSE LET ref == IF item.ref >= 0 THEN item.ref ELSE Len(pref) + item.ref
             at == IF item.ref >= 0 THEN start + ref ELSE end + ref
         IN  IF ref \in Keys(pref)
             THEN LET refd_text == RefdText(doc, start, Get(pref, ref))
                  IN  [options |-> IF refd_text # <<>> THEN <<refd_text>> ELSE <<>>,
                       warning |-> 0, raised |-> FALSE]
             ELSE IF InDoc(doc, at)
                  THEN [options |-> << <<DocAt(doc, at)>> >>, warning |-> 1, raised |-> FALSE]
                  ELSE [options |-> <<>>, warning |-> 1, raised |-> TRUE]

\* SuggestionGenerator(..., filter_suggestions=False, default_max_count=None)
DefaultMaxCount == 0

\* get_item_max_count without filter_suggestions; default_max_count 0 is None
get_item_max_count(item, item_options, default_max_count) ==
    IF item.max_count # 0 THEN item.max_count
    ELSE IF default_max_count # 0
         THEN (IF default_max_count < Len(item_options)
               THEN default_max_count ELSE Len(item_options))
         ELSE Len(item_options)

\* the same loop with the test of lines 289-290 left out
RECURSIVE GenerateFromKeepingEmpty(_, _, _, _, _, _, _)
GenerateFromKeepingEmpty(pre_suggestion, i, doc, start, end, pref, id) ==
    IF i > Len(pre_suggestion) THEN [suggestions |-> <<>>, warning |-> 0, raised |-> FALSE]
    ELSE LET o == get_options(pre_suggestion[i], doc, start, end, pref)
             max_count == get_item_max_count(pre_suggestion[i], o.options, DefaultMaxCount)
             rest == GenerateFromKeepingEmpty(pre_suggestion, i + 1, doc, start, end, pref, id)
         IN  [suggestions |->
                 <<SuggestionVariants(o.options, max_count, id)>> \o rest.suggestions,
              warning |-> o.warning + rest.warning,
              raised |-> o.raised \/ rest.raised]

\* the loop of SuggestionGenerator.__call__ from item i of the template on (the
\* items here have no INFLECTION, FROM_TEMPLATE_ID or REPLACY_OP key, so that
\* inflect and case return the options they are given); an item without
\* options adds no SuggestionVariants
RECURSIVE GenerateFrom(_, _, _, _, _, _, _)
GenerateFrom(pre_suggestion, i, doc, start, end, pref, id) ==
    IF i > Len(pre_suggestion) THEN [suggestions |-> <<>>, warning |-> 0, raised |-> FALSE]
    ELSE LET o == get_options(pre_suggestion[i], doc, start, end, pref)
             max_count == get_item_max_count(pre_suggestion[i], o.options, DefaultMaxCount)
             rest == GenerateFrom(pre_suggestion, i + 1, doc, start, end, pref, id)
         IN  [suggestions |->
                 (IF Len(o.options) > 0
                  THEN <<SuggestionVariants(o.options, max_count, id)>> ELSE <<>>)
                     \o rest.suggestions,
              warning |-> o.warning + rest.warning,
              raised |-> o.raised \/ rest.raised]

suggestion_gen(pre_suggestion, doc, start, end, pref, id) ==
    GenerateFrom(pre_suggestion, 1, doc, start, end, pref, id)

(***************************************************************************)
(* process_suggestions: the bounded expansion of one template.             *)
(***************************************************************************)
\* seq(options).map(len).reduce(lambda x, y: x * y), on a non-empty list
RECURSIVE suggestions_count(_)
suggestions_count(vs) ==
    IF Len(vs) = 1 THEN Len(vs[1].cased_options)
    ELSE suggestions_count(SubSeq(vs, 1, Len(vs) - 1)) * Len(vs[Len(vs)].cased_options)

\* opt_combinations with the tuples built from the last slot to the first
RECURSIVE opt_combinations_reversed(_)
opt_combinations_reversed(vs) ==
    IF vs = <<>> THEN << <<>> >>
    ELSE LET h == VariantIter(Head(vs))
             P == opt_combinations_reversed(Tail(vs))
         IN  Flatten([i \in 1..Len(h) |-> [j \in 1..Len(P) |-> P[j] \o <<h[i]>>]])

\* itertools.product(*options): one tuple per combination, the last slot
\* varying fastest
RECURSIVE opt_combinations(_)
opt_combinations(vs) ==
    IF vs = <<>> THEN << <<>> >>
    ELSE LET h == VariantIter(Head(vs))
             P == opt_combinations(Tail(vs))
         IN  Flatten([i \in 1..Len(h) |-> [j \in 1..Len(P) |-> <<h[i]>> \o P[j]]])

\* process_suggestions refusing a count equal to the cap
process_suggestions_at_cap(vs, cap) ==
    IF vs = <<>> THEN [raised |-> TRUE, warning |-> 0, out |-> <<>>]
    ELSE IF suggestions_count(vs) >= cap
         THEN [raised |-> FALSE, warning |-> 1, out |-> <<>>]
         ELSE [raised |-> FALSE, warning |-> 0, out |-> opt_combinations(vs)]

\* The result of process_suggestions for the kept slots vs of one template:
\* reduce() of an empty list raises TypeError; a count above the cap warns and
\* gives no candidate; otherwise the product.  The candidates stay lists of
\* Suggestion: the text is joined by the joiner stage.
process_suggestions(vs, cap) ==
    IF vs = <<>> THEN [raised |-> TRUE, warning |-> 0, out |-> <<>>]
    ELSE IF suggestions_count(vs) > cap
         THEN [raised |-> FALSE, warning |-> 1, out |-> <<>>]
         ELSE [raised |-> FALSE, warning |-> 0, out |-> opt_combinations(vs)]

(***************************************************************************)
(* The filter stage: greedy max-count elimination.                         *)
(***************************************************************************)
\* n is the Python index + 1
equal_except_nth_place(list1, list2, n) ==
    /\ Len(list1) * Len(list2) # 0
    /\ list1[1].id = list2[1].id
    /\ Len(list1) = Len(list2)
    /\ \A i \in 1..Len(list1) : i # n => list1[i].text = list2[i].text

\* Eliminated removing only the first such candidate of rest
EliminatedFirstOnly(elem, rest, i) ==
    LET hits == {p \in 1..Len(rest) : equal_except_nth_place(elem, rest[p], i)}
    IN  IF hits = {} THEN rest
        ELSE [p \in 1..(Len(rest) - 1) |-> IF p < Min(hits) THEN rest[p] ELSE rest[p + 1]]

\* the candidates of rest that are not equal to elem except at place i
Eliminated(elem, rest, i) ==
    SelectSeq(rest, LAMBDA r : ~equal_except_nth_place(elem, r, i))

\* EliminateItem comparing the count with > in place of >=
EliminateItemOffByOne(elem, chosen, rest, i) ==
    LET max_count == elem[i].max_count
        current_count == SelectSeq(chosen, LAMBDA r : equal_except_nth_place(elem, r, i))
    IN  IF max_count = NoCap THEN rest
        ELSE IF max_count = 1 THEN Eliminated(elem, rest, i)
        ELSE IF Len(current_count) > max_count THEN Eliminated(elem, rest, i)
        ELSE rest

\* the loop body of eliminate_options for item i of elem
EliminateItem(elem, chosen, rest, i) ==
    LET max_count == elem[i].max_count
        current_count == SelectSeq(chosen, LAMBDA r : equal_except_nth_place(elem, r, i))
    IN  IF max_count = NoCap THEN rest
        ELSE IF max_count = 1 THEN Eliminated(elem, rest, i)
        ELSE IF Len(current_count) >= max_count THEN Eliminated(elem, rest, i)
        ELSE rest

RECURSIVE EliminateFrom(_, _, _, _)
EliminateFrom(elem, chosen, rest, i) ==
    IF i > Len(elem) THEN rest
    ELSE EliminateFrom(elem, chosen, EliminateItem(elem, chosen, rest, i), i + 1)

\* eliminate_options dropping at every item, whatever its max_count
RECURSIVE EliminateFromIgnoringCaps(_, _, _)
EliminateFromIgnoringCaps(elem, rest, i) ==
    IF i > Len(elem) THEN rest
    ELSE EliminateFromIgnoringCaps(elem, Eliminated(elem, rest, i), i + 1)

eliminate_options_ignoring_caps(elem, chosen, rest) ==
    EliminateFromIgnoringCaps(elem, rest, 1)

eliminate_options(elem, chosen, rest) == EliminateFrom(elem, chosen, rest, 1)

\* the selection loop: pop the first candidate of rest, append it to chosen,
\* eliminate from rest, until rest is empty
RECURSIVE select_loop(_, _)
select_loop(chosen, rest) ==
    IF rest = <<>> THEN chosen
    ELSE LET elem == Head(rest)
             chosen1 == Append(chosen, elem)
         IN  select_loop(chosen1, eliminate_options(elem, chosen1, Tail(rest)))

select(candidates) == select_loop(<<>>, candidates)

(***************************************************************************)
(* The sorter stage.                                                       *)
(***************************************************************************)
\* sorted(xs, key): ascending and stable.  key[i] is the key of xs[i].
Rank(key, i) ==
    1 + Cardinality({j \in DOMAIN key : key[j] < key[i] \/ (key[j] = key[i] /\ j < i)})

sorted(xs, key) ==
    [p \in 1..Len(xs) |-> xs[CHOOSE i \in 1..Len(xs) : Rank(key, i) = p]]

(***************************************************************************)
(* The joiner stage.                                                       *)
(***************************************************************************)
\* sep.join(texts)
RECURSIVE str_join(_, _)
str_join(sep, texts) ==
    IF texts = <<>> THEN <<>>
    ELSE IF Len(texts) = 1 THEN texts[1]
    ELSE texts[1] \o <<sep>> \o str_join(sep, Tail(texts))

\* [t.text for t in s]
Texts(c) == [i \in 1..Len(c) |-> c[i].text]

\* join_one joining the characters of a str as if they were Suggestions
join_one_chars(sep, s) ==
    IF s.kind = "cand" THEN Str(str_join(sep, Texts(s.cand)))
    ELSE Str(str_join(sep, [i \in 1..Len(s.str) |-> <<s.str[i]>>]))

\* the body of the loop over span._.suggestions: a candidate is joined; the
\* characters of a non-empty str have no .text (AttributeError), so the str is
\* appended as it is; the empty str has no character and joins to itself
join_one(sep, s) ==
    IF s.kind = "cand" THEN Str(str_join(sep, Texts(s.cand)))
    ELSE IF s.str = <<>> THEN Str(str_join(sep, <<>>))
    ELSE s

join_suggestions(sep, sugg) == [i \in 1..Len(sugg) |-> join_one(sep, sugg[i])]

(***************************************************************************)
(* Inputs: the resolved templates of a match.                              *)
(***************************************************************************)
\* the shape of a kept slot: k options (the last one a repeat when dup) and a cap
SlotShapes(n) == {s \in [k : 1..n, dup : BOOLEAN, mc : Caps] : s.dup => s.k > 1}

\* the sequences of slot shapes with at most n options in total
RECURSIVE SlotSeqs(_)
SlotSeqs(n) ==
    {<<>>} \cup UNION {{<<s>> \o r : r \in SlotSeqs(n - s.k)} : s \in SlotShapes(n)}

\* cuts splits the slots into templates: slot i belongs to template TemplateOf
TemplateOf(i, cuts) == Cardinality({c \in cuts : c < i})

Grouped(ss, cuts) ==
    [t \in 1..(Cardinality(cuts) + 1) |->
        LET idx == {i \in 1..Len(ss) : TemplateOf(i, cuts) = t - 1}
        IN  [j \in 1..Cardinality(idx) |->
                LET sh == ss[Min(idx) + j - 1]
                IN  SuggestionVariants(Options(sh.k, sh.dup), sh.mc, t - 1)]]

VariantInputs ==
    UNION {{Grouped(ss, cuts) : cuts \in SUBSET (1..(Len(ss) - 1))} :
              ss \in SlotSeqs(MaxOptions) \ {<<>>}}

(***************************************************************************)
(* The pipeline of the engine and its API.  A stage is known by its name.  *)
(***************************************************************************)
None == "None"
True == "True"

\* ReplaceMatcher(nlp, match_dict).pipe_names
DefaultPipeline == <<"sorter", "filter", "joiner">>

\* the name of the component a caller adds: NewComponent()
AddedNames == {"garbler"}

StageNames == {"sorter", "filter", "joiner"} \cup AddedNames

pipe_names(pl) == {pl[i] : i \in 1..Len(pl)}

\* list.index(x), 0-based
IndexOf(pl, x) == (CHOOSE i \in 1..Len(pl) : pl[i] = x /\ \A j \in 1..(i - 1) : pl[j] # x) - 1

\* list.insert(i, x), i a 0-based index within the list
InsertAt(pl, i, x) == SubSeq(pl, 1, i) \o <<x>> \o SubSeq(pl, i + 1, Len(pl))

\* list.pop(i), i a 0-based index within the list
RemoveAt(pl, i) == SubSeq(pl, 1, i) \o SubSeq(pl, i + 2, Len(pl))

at_most_one_counting_true(args) ==
    Cardinality({i \in DOMAIN args : args[i] = True}) <= 1

\* len(list(filter(bool, [x is not None for x in args]))) <= 1
at_most_one_is_not_none(args) ==
    Cardinality({i \in DOMAIN args : args[i] # None}) <= 1

Raised(pl) == [pipeline |-> pl, raised |-> TRUE]
Returned(pl) == [pipeline |-> pl, raised |-> FALSE]

add_pipe_after_index(pl, name, before, after, first, last) ==
    IF name \in pipe_names(pl) THEN Raised(pl)
    ELSE IF ~at_most_one_is_not_none(<<before, after, first, last>>) THEN Raised(pl)
    ELSE IF after # None /\ after \in pipe_names(pl)
         THEN Returned(InsertAt(pl, IndexOf(pl, after), name))
    ELSE Returned(Append(pl, name))

add_pipe_keeping_duplicates(pl, name, before, after, first, last) ==
    IF ~at_most_one_is_not_none(<<before, after, first, last>>) THEN Raised(pl)
    ELSE Returned(Append(pl, name))

\* addStage(stage, name, {first | last | before | after}): a name already in
\* the pipeline, more than one position, and a before or after that names no
\* stage are configuration errors; with no position the stage goes last
add_pipe(pl, name, before, after, first, last) ==
    IF name \in pipe_names(pl) THEN Raised(pl)
    ELSE IF ~at_most_one_is_not_none(<<before, after, first, last>>) THEN Raised(pl)
    ELSE IF last # None \/ (first = None /\ before = None /\ after = None)
         THEN Returned(Append(pl, name))
    ELSE IF first # None THEN Returned(InsertAt(pl, 0, name))
    ELSE IF before # None /\ before \in pipe_names(pl)
         THEN Returned(InsertAt(pl, IndexOf(pl, before), name))
    ELSE IF after # None /\ after \in pipe_names(pl)
         THEN Returned(InsertAt(pl, IndexOf(pl, after) + 1, name))
    ELSE Raised(pl)

\* removeStage(name): a name that is not in the pipeline is an error
remove_pipe(pl, name) ==
    IF name \in pipe_names(pl) THEN Returned(RemoveAt(pl, IndexOf(pl, name)))
    ELSE Raised(pl)

NoRequest ==
    [op |-> None, name |-> None, before |-> None, after |-> None,
     first |-> None, last |-> None, raised |-> FALSE]

\* the two callers of the engine
CallIds == {1, 2}

\* a span with one word of the sentence before it and one after it
InSentence == [head |-> 1, tail |-> 1]

\* the locals of a caller that has not called yet
IdleCall ==
    [pc |-> "idle", sent |-> <<>>, i |-> 0, stage |-> 0, ran |-> <<>>,
     result |-> <<>>, n |-> 0]

\* no rule's hooks and no item are under consideration
RuleInit ==
    /\ match_hooks = <<>>
    /\ predicates = <<>>
    /\ template_item = <<>>
    /\ resolved = <<>>
    /\ generator = [filter_suggestions |-> FALSE, default_max_count |-> 0]

\* the engine after ReplaceMatcher.__init__
EngineInit ==
    /\ RuleInit
    /\ pipeline = DefaultPipeline
    /\ request = NoRequest
    /\ spans = <<>>
    /\ matcher = {}
    /\ calls = [c \in CallIds |-> IdleCall]
    /\ scorer = "kenlm"
    /\ context = InSentence
    /\ scored = <<>>

(***************************************************************************)
(* The call for one match, from the resolved templates on.                 *)
(***************************************************************************)
\* ReplaceMatcher(..., max_suggestions_count=1000)
DefaultMaxSuggestionsCount == 1000

Init ==
    /\ pc = "generated"
    /\ pattern = <<>>
    /\ span = <<>>
    /\ pattern_ref = <<>>
    /\ matcher_runs = 0
    /\ pre_suggestions = <<>>
    /\ ref_warned = 0
    /\ variants \in VariantInputs
    /\ max_suggestions_count = DefaultMaxSuggestionsCount
    /\ separator = " "
    /\ suggestions = <<>>
    /\ warned = 0
    /\ EngineInit

\* the results of process_suggestions for the templates, in template order
Expanded(vss, cap) == [t \in 1..Len(vss) |-> process_suggestions(vss[t], cap)]

\* span._.suggestions after the loop over the templates
BuiltSuggestions(res) ==
    Flatten([t \in 1..Len(res) |-> [j \in 1..Len(res[t].out) |-> Cand(res[t].out[j])]])

\* the callback's loop over the templates: span._.suggestions += ...
Build ==
    /\ pc = "generated"
    /\ LET res == Expanded(variants, max_suggestions_count)
       IN  IF \E t \in 1..Len(res) : res[t].raised
           THEN /\ pc' = "raised"
                /\ UNCHANGED <<suggestions, warned>>
           ELSE /\ pc' = "built"
                /\ suggestions' = BuiltSuggestions(res)
                /\ warned' = SumSeq([t \in 1..Len(res) |-> res[t].warning])
    /\ UNCHANGED <<matchVars, engineVars, variants, max_suggestions_count, separator>>

\* score_suggestion: the hypothesis of a candidate is head + candidate + tail
\* joined with " "; here the part of the candidate
Hypothesis(s) == str_join(" ", Texts(s.cand))

\* len(text.split()) after preprocess: the tokens that are not white space
Words(text) == Cardinality({i \in 1..Len(text) : text[i] # " "})

word_count(ctx, s) == ctx.head + Words(Hypothesis(s)) + ctx.tail

\* float("-inf"): below every perplexity, which are 0..MaxScore
NegInf == -1

\* KenLMScorer.__call__: the perplexity of the hypothesis under the language
\* model, and -inf for a hypothesis of fewer than two words
KenLMScorer(ctx, s, perplexity) ==
    IF word_count(ctx, s) < 2 THEN NegInf ELSE perplexity

\* the language model gives equal hypotheses equal perplexities
LanguageModels(sugg) ==
    {lm \in [1..Len(sugg) -> 0..MaxScore] :
        \A i, j \in 1..Len(sugg) :
            Hypothesis(sugg[i]) = Hypothesis(sugg[j]) => lm[i] = lm[j]}

Reversed(xs) == [i \in 1..Len(xs) |-> xs[Len(xs) + 1 - i]]

reversed_sort_suggestions(sps) ==
    [k \in 1..Len(sps) |-> [sps[k] EXCEPT !.suggestions = Reversed(@)]]

\* Scorer.sort_suggestions of the default scorer
default_sort_suggestions(sps) == sps

kenlm_sort_descending(sugg, scores) ==
    IF Len(sugg) > 1 THEN Reversed(sorted(Reversed(sugg), Reversed(scores))) ELSE sugg

\* KenLMScorer.sort_suggestions for one span, given the scores of its
\* suggestions
kenlm_sort_suggestions(sugg, scores) ==
    IF Len(sugg) > 1 THEN sorted(sugg, scores) ELSE sugg

\* sort_suggestions on the span of the match
Sort ==
    /\ pc = "built"
    /\ pc' = "sorted"
    /\ IF scorer = "kenlm"
       THEN \E lm \in LanguageModels(suggestions) :
               /\ scored' = [i \in 1..Len(suggestions) |->
                                KenLMScorer(context, suggestions[i], lm[i])]
               /\ suggestions' = kenlm_sort_suggestions(suggestions, scored')
       ELSE /\ scored' = <<>>
            /\ suggestions' =
                  default_sort_suggestions(<<[suggestions |-> suggestions]>>)[1].suggestions
    /\ UNCHANGED <<matchVars, pipeline, request, spans, matcher, calls, scorer, context, ruleVars,
                   variants, max_suggestions_count, separator, warned>>

Uncand(sugg) == [i \in 1..Len(sugg) |-> sugg[i].cand]
Recand(cs) == [i \in 1..Len(cs) |-> Cand(cs[i])]

\* the filter stage
Filter ==
    /\ pc = "sorted"
    /\ pc' = "filtered"
    /\ suggestions' = Recand(select(Uncand(suggestions)))
    /\ UNCHANGED <<matchVars, engineVars, variants, max_suggestions_count, separator,
                   warned>>

\* the joiner stage; the separator is the span's suggestions_separator when
\* the span has that extension, and " " otherwise
Join ==
    /\ pc = "filtered"
    /\ pc' = "joined"
    /\ \E sep \in Separators :
          /\ separator' = sep
          /\ suggestions' = join_suggestions(sep, suggestions)
    /\ UNCHANGED <<matchVars, engineVars, variants, max_suggestions_count, warned>>

Next == Build \/ Sort \/ Filter \/ Join

Spec == Init /\ [][Next]_vars

(***************************************************************************)
(* The sorter alone, under both scorers and for a span anywhere in its     *)
(* sentence.                                                               *)
(***************************************************************************)
ScorerInputs == {"default", "kenlm"}

ContextInputs == {[head |-> h, tail |-> t] : h, t \in 0..1}

InitSort ==
    /\ pc = "generated"
    /\ pattern = <<>>
    /\ span = <<>>
    /\ pattern_ref = <<>>
    /\ matcher_runs = 0
    /\ pre_suggestions = <<>>
    /\ ref_warned = 0
    /\ variants \in VariantInputs
    /\ max_suggestions_count = DefaultMaxSuggestionsCount
    /\ separator = " "
    /\ suggestions = <<>>
    /\ warned = 0
    /\ pipeline = DefaultPipeline
    /\ request = NoRequest
    /\ spans = <<>>
    /\ matcher = {}
    /\ calls = [c \in CallIds |-> IdleCall]
    /\ scorer \in ScorerInputs
    /\ context \in ContextInputs
    /\ scored = <<>>
    /\ RuleInit

NextSort == Build \/ Sort

SpecSort == InitSort /\ [][NextSort]_vars

(***************************************************************************)
(* The expansion alone, under every configured cap.                        *)
(***************************************************************************)
InitBuild ==
    /\ pc = "generated"
    /\ pattern = <<>>
    /\ span = <<>>
    /\ pattern_ref = <<>>
    /\ matcher_runs = 0
    /\ pre_suggestions = <<>>
    /\ ref_warned = 0
    /\ variants \in VariantInputs
    /\ max_suggestions_count \in 1..MaxCap
    /\ separator = " "
    /\ suggestions = <<>>
    /\ warned = 0
    /\ EngineInit

SpecBuild == InitBuild /\ [][Build]_vars

(***************************************************************************)
(* The joiner alone, on spans whose suggestions are candidates, strs, or   *)
(* both.  Two spans with the same boundaries share one suggestions list,   *)
(* so the joiner's loop over the spans meets that list a second time.      *)
(***************************************************************************)
JoinEntries ==
    { Str(<<>>), Str(Word("a")), Str(<<"a", " ", "b">>),
      Cand(<<>>), Cand(<<Suggestion(Word("a"), 1, 0)>>),
      Cand(<<Suggestion(Word("a"), 1, 0), Suggestion(Word("b"), NoCap, 0)>>) }

JoinInputs == UNION {[1..n -> JoinEntries] : n \in 0..MaxJoin}

InitJoin ==
    /\ pc = "filtered"
    /\ pattern = <<>>
    /\ span = <<>>
    /\ pattern_ref = <<>>
    /\ matcher_runs = 0
    /\ pre_suggestions = <<>>
    /\ ref_warned = 0
    /\ suggestions \in JoinInputs
    /\ variants = <<>>
    /\ max_suggestions_count = DefaultMaxSuggestionsCount
    /\ separator = " "
    /\ warned = 0
    /\ EngineInit

\* the joiner's loop reaches a span with the same boundaries as a joined one
Rejoin ==
    /\ pc \in {"joined", "rejoined"}
    /\ pc' = "rejoined"
    /\ \E sep \in Separators :
          /\ separator' = sep
          /\ suggestions' = join_suggestions(sep, suggestions)
    /\ UNCHANGED <<matchVars, engineVars, variants, max_suggestions_count, warned>>

NextJoin == Join \/ Rejoin

SpecJoin == InitJoin /\ [][NextJoin]_vars

(***************************************************************************)
(* The alignment and the generation for one accepted match.                *)
(***************************************************************************)
Attrs == Tokens \cup {"none"}
Ops == {"1", "?", "*", "+", "!"}
SlotInputs == {Slot(a, o) : a \in Attrs, o \in Ops}
PatternInputs == UNION {[1..n -> SlotInputs] : n \in 1..MaxPattern}
SpanInputs == UNION {[1..n -> Tokens] : n \in 1..MaxSpan}

InitAlign ==
    /\ pc = "matched"
    /\ pattern \in PatternInputs
    /\ span \in SpanInputs
    /\ FullMatch(pattern, span)
    /\ pattern_ref = <<>>
    /\ matcher_runs = 0
    /\ pre_suggestions = <<>>
    /\ ref_warned = 0
    /\ variants = <<>>
    /\ max_suggestions_count = DefaultMaxSuggestionsCount
    /\ separator = " "
    /\ suggestions = <<>>
    /\ warned = 0
    /\ EngineInit

\* pattern_ref = self.ref_matcher(doc[start:end], pattern_obj)
Align ==
    /\ pc = "matched"
    /\ pc' = "aligned"
    /\ \E r \in ref_matcher(span, pattern) :
          /\ pattern_ref' = r.pattern_ref
          /\ matcher_runs' = r.runs
    /\ UNCHANGED <<pattern, span, pre_suggestions, ref_warned, variants,
                   max_suggestions_count, suggestions, warned, separator, engineVars>>

\* the suggestion templates of a rule with an n-slot pattern
RefsTemplate(lo, hi) == [i \in 1..(hi - lo + 1) |-> RefItem(lo + i - 1)]
TextTemplate == <<TextItem(<<Word("a")>>)>>
TemplateInputs(n) ==
    {RefsTemplate(0, n - 1), RefsTemplate(-n, -1)}
        \cup {TextTemplate \o <<RefItem(k)>> : k \in (-n)..(n - 1)}
\* the rule has a second template, which copies nothing from the match
PreSuggestionInputs(n) == {<<t, TextTemplate>> : t \in TemplateInputs(n)}

\* the results of the generator for the templates; the id of a template is its
\* index in the rule's list
Generated(pre, sp, pref) ==
    [t \in 1..Len(pre) |->
        suggestion_gen(pre[t], DocOf(sp), StartOf(sp), EndOf(sp), pref, t - 1)]

\* the callback's loop over the templates of the rule: the generator resolves
\* the items of each template and process_suggestions expands them
Suggest ==
    /\ pc = "aligned"
    /\ \E pre \in PreSuggestionInputs(Len(pattern)) :
          \E gen \in {Generated(pre, span, pattern_ref)} :
              /\ pre_suggestions' = pre
              /\ ref_warned' = SumSeq([t \in 1..Len(gen) |-> gen[t].warning])
              /\ IF \E t \in 1..Len(gen) : gen[t].raised
                 THEN pc' = "raised" /\ UNCHANGED <<variants, suggestions, warned>>
                 ELSE /\ variants' = [t \in 1..Len(gen) |-> gen[t].suggestions]
                      /\ \E res \in {Expanded(variants', max_suggestions_count)} :
                            IF \E t \in 1..Len(res) : res[t].raised
                            THEN pc' = "raised" /\ UNCHANGED <<suggestions, warned>>
                            ELSE /\ pc' = "built"
                                 /\ suggestions' = BuiltSuggestions(res)
                                 /\ warned' = SumSeq([t \in 1..Len(res) |-> res[t].warning])
    /\ UNCHANGED <<pattern, span, pattern_ref, matcher_runs,
                   max_suggestions_count, separator, engineVars>>

NextAlign == Align \/ Suggest

SpecAlign == InitAlign /\ [][NextAlign]_vars

(***************************************************************************)
(* The pipeline API, called between the calls of the engine.               *)
(***************************************************************************)
Positions == {None} \cup StageNames
Flags == {None, True}

InitPipe ==
    /\ pc = "idle"
    /\ pattern = <<>>
    /\ span = <<>>
    /\ pattern_ref = <<>>
    /\ matcher_runs = 0
    /\ pre_suggestions = <<>>
    /\ ref_warned = 0
    /\ variants = <<>>
    /\ max_suggestions_count = DefaultMaxSuggestionsCount
    /\ separator = " "
    /\ suggestions = <<>>
    /\ warned = 0
    /\ EngineInit

AddPipe ==
    /\ pc = "idle"
    /\ Len(pipeline) < MaxStages
    /\ \E name \in StageNames, before \in Positions, after \in Positions,
          first \in Flags, last \in Flags :
          LET r == add_pipe(pipeline, name, before, after, first, last)
          IN  /\ pipeline' = r.pipeline
              /\ request' = [op |-> "add_pipe", name |-> name, before |-> before,
                             after |-> after, first |-> first, last |-> last,
                             raised |-> r.raised]
    /\ UNCHANGED <<callVars, spans, matcher, calls, sorterVars, ruleVars>>

RemovePipe ==
    /\ pc = "idle"
    /\ \E name \in StageNames :
          LET r == remove_pipe(pipeline, name)
          IN  /\ pipeline' = r.pipeline
              /\ request' = [op |-> "remove_pipe", name |-> name, before |-> None,
                             after |-> None, first |-> None, last |-> None,
                             raised |-> r.raised]
    /\ UNCHANGED <<callVars, spans, matcher, calls, sorterVars, ruleVars>>

NextPipe == AddPipe \/ RemovePipe

SpecPipe == InitPipe /\ [][NextPipe]_vars

(***************************************************************************)
(* The call of the engine on a sentence: ReplaceMatcher.__call__.          *)
(*   self.spans = []                      (Begin)                          *)
(*   self.matcher(doc): the callback of   (Match, once per accepted match) *)
(*       each accepted match appends its span to self.spans                *)
(*   the stages of the pipeline, in turn  (Stage, once per stage)          *)
(*   return self.spans                    (Return)                         *)
(***************************************************************************)
\* an accepted match: the pattern of its rule, the tokens of its span and the
\* suggestion templates of its rule
Match(pat, sp, pre) == [pattern |-> pat, span |-> sp, pre |-> pre]

\* a rule with a choice of two texts; a rule that copies a "*" slot; a rule
\* whose only item refers to a "*" slot that took no token; rules whose
\* PATTERN_REF names no slot, the fallback token being in the doc or not
MatchInputs ==
    { Match(<<Slot("x", "1")>>, <<"x">>,
            << <<TextItem(<<Word("a"), Word("b")>>)>> >>),
      Match(<<Slot("x", "1"), Slot("y", "*")>>, <<"x", "y">>,
            << <<TextItem(<<Word("a")>>), RefItem(1)>> >>),
      Match(<<Slot("x", "1"), Slot("y", "*")>>, <<"x">>,
            << <<RefItem(1)>> >>),
      Match(<<Slot("x", "1")>>, <<"x">>,
            << <<RefItem(1)>> >>),
      Match(<<Slot("x", "1")>>, <<"x">>,
            << <<RefItem(2)>> >>) }

\* a sentence is known by its accepted matches, in the matcher's order
SentenceInputs == UNION {[1..n -> MatchInputs] : n \in 1..MaxMatches}

\* the pipelines a caller gets with at most one call of the pipeline API that
\* leaves sorter, filter and joiner in their order
PipelineInputs ==
    {DefaultPipeline}
        \cup {add_pipe(DefaultPipeline, "garbler", None, None, True, None).pipeline,
              add_pipe(DefaultPipeline, "garbler", None, None, None, True).pipeline}
        \cup {add_pipe(DefaultPipeline, "garbler", n, None, None, None).pipeline :
                 n \in pipe_names(DefaultPipeline)}
        \cup {add_pipe(DefaultPipeline, "garbler", None, n, None, None).pipeline :
                 n \in pipe_names(DefaultPipeline)}
        \cup {remove_pipe(DefaultPipeline, n).pipeline : n \in pipe_names(DefaultPipeline)}

\* the span of a match of the doc of caller c, with its suggestions
Span(c, i, sugg) == [doc |-> c, match |-> i, suggestions |-> sugg]

\* while len(self.matcher) > 0 and i < 100
CleanLimit == 100

\* RefMatcher.clean_matcher: the keys that stay in the matcher
clean_matcher(keys) == {k \in keys : k >= CleanLimit}

\* a rule of more slots than clean_matcher visits: CleanLimit slots for "x"
\* and a last slot for an optional "y", matched on CleanLimit tokens "x"
LongPattern == [i \in 1..CleanLimit |-> Slot("x", "1")] \o <<Slot("y", "?")>>

LongMatch ==
    Match(LongPattern, [i \in 1..CleanLimit |-> "x"], << <<TextItem(<<Word("a")>>)>> >>)

\* the sentences of the calls of one caller
CallInputs == SentenceInputs \cup {<<LongMatch>>}

\* the keys remove_skipped_ops adds to the matcher
op_tokens(pat) == {i \in 0..(Len(pat) - 1) : is_droppable(pat[i + 1])}

\* RefMatcher.__call__ on a matcher that holds keys: the keys it holds after
ref_matcher_keys(keys, sp, pat) ==
    IF Len(sp) = Len(pat) /\ ~\E i \in 1..Len(pat) : HasOp(pat[i])
    THEN keys
    ELSE LET r == remove_skipped_ops(sp, pat)
             kept == clean_matcher(keys \cup op_tokens(pat))
         IN  IF /\ Len(sp) = Len(r.non_op_pattern)
                /\ ~\E i \in 1..Len(r.non_op_pattern) : is_multitoken(r.non_op_pattern[i])
             THEN kept
             ELSE clean_matcher(kept \cup (0..(Len(r.non_op_pattern) - 1)))

\* the callback of an accepted match: whether it raised, and the suggestions
\* of the span it appends to self.spans
callback(m, cap) ==
    {LET gen == Generated(m.pre, m.span, r.pattern_ref)
     IN  IF \E t \in 1..Len(gen) : gen[t].raised
         THEN [raised |-> TRUE, suggestions |-> <<>>]
         ELSE LET res == Expanded([t \in 1..Len(gen) |-> gen[t].suggestions], cap)
              IN  IF \E t \in 1..Len(res) : res[t].raised
                  THEN [raised |-> TRUE, suggestions |-> <<>>]
                  ELSE [raised |-> FALSE, suggestions |-> BuiltSuggestions(res)] :
        r \in ref_matcher(m.span, m.pattern)}

\* NewComponent.gibberish
Gibberish == Word("jknasdkjna")

\* NewComponent.__call__
garbler(sps) ==
    [i \in 1..Len(sps) |->
        [sps[i] EXCEPT !.suggestions = <<Cand(<<Suggestion(Gibberish, 1, 69)>>)>>]]


\* the filter stage on every span
filter_stage(sps) ==
    [i \in 1..Len(sps) |->
        [sps[i] EXCEPT !.suggestions = Recand(select(Uncand(sps[i].suggestions)))]]

\* join_suggestions on every span, none of which has a suggestions_separator
joiner_stage(sps) ==
    [i \in 1..Len(sps) |->
        [sps[i] EXCEPT !.suggestions = join_suggestions(" ", sps[i].suggestions)]]

\* component(self.spans) for the component of a name
component(name, sps) ==
    CASE name = "sorter" -> default_sort_suggestions(sps)
      [] name = "filter" -> filter_stage(sps)
      [] name = "joiner" -> joiner_stage(sps)
      [] name = "garbler" -> garbler(sps)

stage_from_the_end(pl, k) == pl[Len(pl) - k + 1]

\* the k-th stage the loop over the pipeline runs
stage_at(pl, k) == pl[k]

\* self.spans = []; doc = self.nlp(sent)
Begin(c, sent) ==
    /\ spans' = <<>>
    /\ calls' = [calls EXCEPT ![c] =
                    [pc |-> "matching", sent |-> sent, i |-> 1, stage |-> 0,
                     ran |-> <<>>, result |-> <<>>, n |-> calls[c].n + 1]]
    /\ UNCHANGED <<callVars, pipeline, request, matcher, sorterVars, ruleVars>>

\* a caller calls the engine, again once its call has ended
BeginCall(c) ==
    /\ calls[c].pc \in {"idle", "done", "raised"}
    /\ calls[c].n < MaxCalls
    /\ \A d \in CallIds \ {c} : calls[d].pc = "idle"
    /\ \E sent \in CallInputs : Begin(c, sent)

\* a caller calls the engine whatever the other caller is doing
BeginThread(c) ==
    /\ calls[c].pc = "idle"
    /\ \E sent \in SentenceInputs : Begin(c, sent)

\* the matcher accepts the next match of the sentence and runs its callback,
\* whose exception ends the call
MatchStep(c) ==
    /\ calls[c].pc = "matching"
    /\ LET call == calls[c]
           m == call.sent[call.i]
       IN  /\ matcher' = ref_matcher_keys(matcher, m.span, m.pattern)
           /\ \E o \in callback(m, max_suggestions_count) :
                 IF o.raised
                 THEN /\ calls' = [calls EXCEPT ![c].pc = "raised"]
                      /\ UNCHANGED spans
                 ELSE /\ spans' = Append(spans, Span(c, call.i, o.suggestions))
                      /\ calls' = [calls EXCEPT
                                      ![c].i = call.i + 1,
                                      ![c].pc = IF call.i = Len(call.sent)
                                                THEN "stages" ELSE "matching",
                                      ![c].stage = IF call.i = Len(call.sent)
                                                   THEN 1 ELSE 0]
    /\ UNCHANGED <<callVars, pipeline, request, sorterVars, ruleVars>>

\* the next stage of the pipeline runs on self.spans
Stage(c) ==
    /\ calls[c].pc = "stages"
    /\ calls[c].stage <= Len(pipeline)
    /\ LET name == stage_at(pipeline, calls[c].stage)
       IN  /\ spans' = component(name, spans)
           /\ calls' = [calls EXCEPT ![c].stage = calls[c].stage + 1,
                                     ![c].ran = Append(calls[c].ran, name)]
    /\ UNCHANGED <<callVars, pipeline, request, matcher, sorterVars, ruleVars>>

\* return self.spans
Return(c) ==
    /\ calls[c].pc = "stages"
    /\ calls[c].stage > Len(pipeline)
    /\ calls' = [calls EXCEPT ![c].pc = "done", ![c].result = spans]
    /\ UNCHANGED <<callVars, pipeline, request, spans, matcher, sorterVars, ruleVars>>

\* the engine of a caller: its pipeline and its max_suggestions_count
InitCall ==
    /\ pc = "idle"
    /\ pattern = <<>>
    /\ span = <<>>
    /\ pattern_ref = <<>>
    /\ matcher_runs = 0
    /\ pre_suggestions = <<>>
    /\ ref_warned = 0
    /\ variants = <<>>
    /\ max_suggestions_count \in {1, DefaultMaxSuggestionsCount}
    /\ separator = " "
    /\ suggestions = <<>>
    /\ warned = 0
    /\ pipeline \in PipelineInputs
    /\ request = NoRequest
    /\ spans = <<>>
    /\ matcher = {}
    /\ calls = [c \in CallIds |-> IdleCall]
    /\ scorer = "default"
    /\ context = InSentence
    /\ scored = <<>>
    /\ RuleInit

\* one caller, one call after the other
NextCall == BeginCall(1) \/ MatchStep(1) \/ Stage(1) \/ Return(1)

SpecCall == InitCall /\ [][NextCall]_vars

\* two callers whose calls interleave
NextThreads == \E c \in CallIds : BeginThread(c) \/ MatchStep(c) \/ Stage(c) \/ Return(c)

\* the engine the two callers share: the default one
InitThreads ==
    /\ InitCall
    /\ pipeline = DefaultPipeline
    /\ max_suggestions_count = DefaultMaxSuggestionsCount

SpecThreads == InitThreads /\ [][NextThreads]_vars

(***************************************************************************)
(* The resolution of one PATTERN_REF item against the mapping of a match.  *)
(***************************************************************************)
\* the items {"PATTERN_REF": k} of a rule with an n-slot pattern: k names a
\* slot from the front or from the back, or no slot at all
RefInputs(n) == {RefItem(k) : k \in (-n - 2)..(n + 1)}

\* item_options = SuggestionGenerator.get_options(item, doc, start, end, ...)
GetOptions ==
    /\ pc = "aligned"
    /\ pc' = "resolved"
    /\ \E it \in RefInputs(Len(pattern)) :
          /\ template_item' = it
          /\ resolved' = get_options(it, DocOf(span), StartOf(span), EndOf(span), pattern_ref)
    /\ UNCHANGED <<matchVars, variants, max_suggestions_count, suggestions, warned,
                   separator, pipeline, request, spans, matcher, calls, sorterVars,
                   match_hooks, predicates, generator>>

\* a template item with TEXT and FROM_TEMPLATE_ID; tagged holds the indices of
\* the pattern slots whose TEMPLATE_ID is the one the item asks for
FromItem(options, tagged) ==
    [kind |-> "TEXT", options |-> options, ref |-> 0, max_count |-> NoCap,
     tagged |-> tagged]

FromInputs(n) == {FromItem(<<Word("sing"), Word("give")>>, tagged) : tagged \in SUBSET (0..(n - 1))}

\* Inflector.auto_inflect(doc, suggestion, index): the one form of the
\* suggestion that has the tag of the doc token, written suggestion/token
auto_inflect(suggestion, token) == <<[suggestion EXCEPT ![Len(suggestion)] = @ \o "/" \o token]>>

\* SuggestionGenerator.inflect for FROM_TEMPLATE_ID: index is the first slot
\* with the template id, None when there is none; pattern_ref[index] raises
\* KeyError without that key, doc[start + doc_index] raises IndexError
\* outside the doc
inflect_from_template_id(item, item_options, pref, doc, start) ==
    IF item.tagged = {} \/ Min(item.tagged) \notin Keys(pref)
    THEN [options |-> <<>>, warning |-> 0, raised |-> TRUE]
    ELSE LET index == Min(item.tagged)
             doc_indices == Get(pref, index)
             doc_index == IF Len(doc_indices) = 0 THEN index ELSE doc_indices[1]
             warning == IF Len(doc_indices) = 0 THEN 1 ELSE 0
         IN  IF ~InDoc(doc, start + doc_index)
             THEN [options |-> <<>>, warning |-> warning, raised |-> TRUE]
             ELSE [options |->
                       Flatten([i \in 1..Len(item_options) |->
                                   auto_inflect(item_options[i], DocAt(doc, start + doc_index))]),
                   warning |-> warning, raised |-> FALSE]

\* the options of a FROM_TEMPLATE_ID item of the rule: get_options, then inflect
InflectFrom ==
    /\ pc = "aligned"
    /\ pc' = "inflected"
    /\ \E it \in FromInputs(Len(pattern)) :
          /\ template_item' = it
          /\ resolved' = inflect_from_template_id(it, it.options, pattern_ref,
                                                  DocOf(span), StartOf(span))
    /\ UNCHANGED <<matchVars, variants, max_suggestions_count, suggestions, warned,
                   separator, pipeline, request, spans, matcher, calls, sorterVars,
                   match_hooks, predicates, generator>>

NextRef == Align \/ GetOptions \/ InflectFrom

SpecRef == InitAlign /\ [][NextRef]_vars

(***************************************************************************)
(* The resolution of one TEXT item: options, max count, inflection.  What  *)
(* the inflector returns comes from lemminflect and the tagger: for each   *)
(* option it is a list of no, one or two forms, given with the item.       *)
(***************************************************************************)
MaxItemOptions == 2

Vocabulary == {"walk", "walks", "talk", "a", "person", "people", "ox", "oxen", ","}

\* the texts of "TEXT": {"IN": [...]}: one word, or the two words "in a"
OptionTexts == {Word(w) : w \in Vocabulary} \cup {<<"in", "a">>}

\* the values of INFLECTION: a tag, a pos, "ALL", an unsupported value
Inflections == {"VBD", "VERB", "ALL", "XX"}

\* Inflector.get_inflection_type
get_inflection_type(value) ==
    IF value = "VERB" THEN "pos"
    ELSE IF value = "VBD" THEN "tag"
    ELSE "all"

\* the forms inflect_or_lookup can return for an option: a prefix of these
InflectorForms(o) ==
    <<[o EXCEPT ![Len(o)] = @ \o "s"], [o EXCEPT ![Len(o)] = @ \o "ed"]>>
\* what the inflector can return for the options of an item, option by option
FormsInputs(options) ==
    {[i \in 1..Len(options) |-> SubSeq(InflectorForms(options[i]), 1, c[i])] :
        c \in [1..Len(options) -> 0..2]}

\* a template item with TEXT, and INFLECTION (None when the key is absent)
InflectedItem(options, inflection, forms, max_count) ==
    [kind |-> "TEXT", options |-> options, ref |-> 0, max_count |-> max_count,
     inflection |-> inflection, forms |-> forms]

\* str.isalpha on an option: a text of several words has a space in it
isalpha(o) == Len(o) = 1 /\ o[1] # "," /\ o[1] # ""

\* Inflector.get_lemmas(option), for an option of one word
get_lemmas(o) == IF o = Word("walks") THEN {"walk"} ELSE {o[1]}

\* the loop of rule E from option i on, lemmas being those seen so far
RECURSIVE SharedLemma(_, _, _)
SharedLemma(item_options, i, lemmas) ==
    IF i > Len(item_options) THEN FALSE
    ELSE IF lemmas \cap get_lemmas(item_options[i]) # {} THEN TRUE
    ELSE SharedLemma(item_options, i + 1, lemmas \cup get_lemmas(item_options[i]))

In(w, item_options) == \E i \in 1..Len(item_options) : item_options[i] = Word(w)

\* the same rules with rule E, the shared lemma, left out
filtered_max_count_without_lemmas(item, item_options, default_max_count) ==
    IF item.max_count # 0 THEN item.max_count
    ELSE IF Len(item_options) = 0 THEN 1
    ELSE IF \E i \in 1..Len(item_options) : ~isalpha(item_options[i]) THEN 1
    ELSE IF \E i \in 1..Len(item_options) : Len(item_options[i]) > 1 THEN 1
    ELSE IF item.inflection # None /\ get_inflection_type(item.inflection) # "tag" THEN 1
    ELSE IF /\ Len(item_options) > 1
            /\ \/ \E article \in {"a", "an", "the"} : In(article, item_options)
               \/ In("person", item_options) /\ In("people", item_options)
               \/ In("ox", item_options) /\ In("oxen", item_options)
         THEN 1
    ELSE get_item_max_count(item, item_options, default_max_count)

\* get_item_max_count with filter_suggestions: the rules A to G after the
\* soft cap
filtered_max_count(item, item_options, default_max_count) ==
    IF item.max_count # 0 THEN item.max_count
    ELSE IF Len(item_options) = 0 THEN 1
    ELSE IF \E i \in 1..Len(item_options) : ~isalpha(item_options[i]) THEN 1
    ELSE IF \E i \in 1..Len(item_options) : Len(item_options[i]) > 1 THEN 1
    ELSE IF item.inflection # None /\ get_inflection_type(item.inflection) # "tag" THEN 1
    ELSE IF /\ Len(item_options) > 1
            /\ \/ SharedLemma(item_options, 1, {})
               \/ \E article \in {"a", "an", "the"} : In(article, item_options)
               \/ In("person", item_options) /\ In("people", item_options)
               \/ In("ox", item_options) /\ In("oxen", item_options)
         THEN 1
    ELSE get_item_max_count(item, item_options, default_max_count)

\* SuggestionGenerator.inflect for INFLECTION: the forms of every option, in
\* the order of the options
inflect(item, item_options) ==
    IF item.inflection = None THEN item_options
    ELSE Flatten([i \in 1..Len(item_options) |-> item.forms[i]])

OptionInputs(n) == UNION {[1..k -> OptionTexts] : k \in 0..n}

\* the items with up to n options
ItemInputs(n) ==
    UNION {{InflectedItem(options, None, <<>>, cap) : cap \in 0..MaxCount}
           \cup {InflectedItem(options, inflection, forms, cap) :
                    inflection \in Inflections,
                    forms \in FormsInputs(options),
                    cap \in 0..MaxCount} :
           options \in OptionInputs(n)}

InitItem ==
    /\ pc = "item"
    /\ pattern = <<>>
    /\ span = <<>>
    /\ pattern_ref = <<>>
    /\ matcher_runs = 0
    /\ pre_suggestions = <<>>
    /\ ref_warned = 0
    /\ variants = <<>>
    /\ max_suggestions_count = DefaultMaxSuggestionsCount
    /\ separator = " "
    /\ suggestions = <<>>
    /\ warned = 0
    /\ pipeline = DefaultPipeline
    /\ request = NoRequest
    /\ spans = <<>>
    /\ matcher = {}
    /\ calls = [c \in CallIds |-> IdleCall]
    /\ scorer = "default"
    /\ context = InSentence
    /\ scored = <<>>
    /\ match_hooks = <<>>
    /\ predicates = <<>>
    /\ template_item \in ItemInputs(MaxItemOptions)
    /\ resolved = <<>>
    /\ generator \in [filter_suggestions : BOOLEAN, default_max_count : 0..MaxCount]

\* the body of the loop of SuggestionGenerator.__call__ for the item: the
\* max count is taken from the options get_options gave, then they are
\* inflected; an item without options makes no SuggestionVariants
ResolveItem ==
    /\ pc = "item"
    /\ pc' = "resolved"
    /\ LET item_options == template_item.options
           max_count == IF generator.filter_suggestions
                        THEN filtered_max_count(template_item, item_options,
                                                generator.default_max_count)
                        ELSE get_item_max_count(template_item, item_options,
                                                generator.default_max_count)
           cased_options == inflect(template_item, item_options)
       IN  resolved' = [cased_options |-> cased_options, max_count |-> max_count,
                        kept |-> Len(cased_options) > 0]
    /\ UNCHANGED <<matchVars, variants, max_suggestions_count, suggestions, warned,
                   separator, pipeline, request, spans, matcher, calls, sorterVars,
                   match_hooks, predicates, template_item, generator>>

NextItem == ResolveItem

SpecItem == InitItem /\ [][NextItem]_vars

(***************************************************************************)
(* The match hooks of a rule: get_predicates and the head of the callback. *)
(* A hook is known by what its predicate does on (doc, start, end) of the  *)
(* match: it returns True or False, or it raises IndexError (doc[end] at   *)
(* the end of the doc, as in is_end_of_sentence).                          *)
(***************************************************************************)
MaxHooks == 3       \* hooks of a rule

HookValues == {"True", "False", "IndexError"}

\* match_if_predicate_is: absent (None), true or false
HookFlags == {None, "True", "False"}

Hook(value, flag) == [value |-> value, match_if_predicate_is |-> flag]

HookInputs == UNION {[1..n -> {Hook(v, f) : v \in HookValues, f \in HookFlags}] : n \in 0..MaxHooks}

\* operator.not_
Not(b) == IF b = "True" THEN "False" ELSE "True"

\* a predicate of the list: the hook's template filled in, under neg or not
Pred(value, negated) == [value |-> value, negated |-> negated]

\* get_predicates: neg(pred) when bool(hook.get("match_if_predicate_is", False))
get_predicates(hooks) ==
    [i \in 1..Len(hooks) |-> Pred(hooks[i].value, hooks[i].match_if_predicate_is = "True")]

\* pred(doc, start, end): compose(operator.not_, f) raises where f raises
Call(pred) ==
    IF pred.value = "IndexError" THEN "IndexError"
    ELSE IF pred.negated THEN Not(pred.value)
    ELSE pred.value

\* the loop of cb over the predicates from the i-th on: TRUE when cb returns
\* None before it makes the span; an IndexError ends the loop
RECURSIVE ReturnsNone(_, _)
ReturnsNone(preds, i) ==
    IF i > Len(preds) THEN FALSE
    ELSE IF Call(preds[i]) = "IndexError" THEN FALSE
    ELSE IF Call(preds[i]) = "True" THEN TRUE
    ELSE ReturnsNone(preds, i + 1)

InitHooks ==
    /\ pc = "rule"
    /\ pattern = <<>>
    /\ span = <<>>
    /\ pattern_ref = <<>>
    /\ matcher_runs = 0
    /\ pre_suggestions = <<>>
    /\ ref_warned = 0
    /\ variants = <<>>
    /\ max_suggestions_count = DefaultMaxSuggestionsCount
    /\ separator = " "
    /\ suggestions = <<>>
    /\ warned = 0
    /\ pipeline = DefaultPipeline
    /\ request = NoRequest
    /\ spans = <<>>
    /\ matcher = {}
    /\ calls = [c \in CallIds |-> IdleCall]
    /\ scorer = "default"
    /\ context = InSentence
    /\ scored = <<>>
    /\ match_hooks \in HookInputs
    /\ predicates = <<>>
    /\ template_item = <<>>
    /\ resolved = <<>>
    /\ generator = [filter_suggestions |-> FALSE, default_max_count |-> 0]

\* get_callback: the predicates are made once, the callback closes over them
GetCallback ==
    /\ pc = "rule"
    /\ pc' = "found"
    /\ predicates' = get_predicates(match_hooks)
    /\ UNCHANGED <<matchVars, variants, max_suggestions_count, suggestions, warned,
                   separator, pipeline, request, spans, matcher, calls, sorterVars,
                   match_hooks, template_item, resolved, generator>>

\* cb on a match the matcher found: it returns None or appends the span
Cb ==
    /\ pc = "found"
    /\ IF ReturnsNone(predicates, 1)
       THEN pc' = "rejected" /\ UNCHANGED spans
       ELSE pc' = "accepted" /\ spans' = Append(spans, Span(1, 1, <<>>))
    /\ UNCHANGED <<matchVars, variants, max_suggestions_count, suggestions, warned,
                   separator, pipeline, request, matcher, calls, sorterVars, ruleVars>>

NextHooks == GetCallback \/ Cb

SpecHooks == InitHooks /\ [][NextHooks]_vars

(***************************************************************************)
(* Claims.                                                                 *)
(***************************************************************************)
\* the candidates of the match before the stages ran
BuiltCandidates ==
    Flatten([t \in 1..Len(variants) |->
                process_suggestions(variants[t], max_suggestions_count).out])

\* c and d have identical text at every slot other than i
SameExcept(c, d, i) ==
    /\ Len(c) = Len(d)
    /\ \A j \in 1..Len(c) : j # i => c[j].text = d[j].text

\* the positions of the selected candidates that share c's text at every slot but i
Sharing(c, i) ==
    {q \in 1..Len(suggestions) : SameExcept(c, suggestions[q].cand, i)}

\* C1 as stated: after select, for every selected candidate and every slot
\* of it whose max_count is k, at most k selected candidates (of any template)
\* have the same text at every other slot.
C1_CapAcrossTemplates ==
    pc = "filtered" =>
        \A p \in 1..Len(suggestions) :
            LET c == suggestions[p].cand
            IN  \A i \in 1..Len(c) :
                    c[i].max_count # NoCap =>
                        Cardinality(Sharing(c, i)) <= c[i].max_count

\* C1 amended: after select, for every selected candidate and every slot of
\* it whose max_count is k, at most k selected candidates of the same template
\* have the same text at every other slot.
C1_CapWithinTemplate ==
    pc = "filtered" =>
        \A p \in 1..Len(suggestions) :
            LET c == suggestions[p].cand
            IN  \A i \in 1..Len(c) :
                    c[i].max_count # NoCap =>
                        Cardinality({q \in Sharing(c, i) :
                                        suggestions[q].cand[1].id = c[1].id})
                            <= c[i].max_count

\* a custom cap was reached by selected candidates and a candidate was dropped
C1_Witness ==
    /\ pc = "filtered"
    /\ Len(suggestions) < Len(BuiltCandidates)
    /\ \E p \in 1..Len(suggestions) :
          LET c == suggestions[p].cand
          IN  \E i \in 1..Len(c) :
                  /\ c[i].max_count = MaxCount
                  /\ Cardinality({q \in Sharing(c, i) :
                                     suggestions[q].cand[1].id = c[1].id}) = MaxCount

\* C2: select applied to the output of select returns that output, in order.
C2_SelectIdempotent ==
    pc = "filtered" => select(Uncand(suggestions)) = Uncand(suggestions)

\* select dropped a candidate and kept several
C2_Witness ==
    /\ pc = "filtered"
    /\ Len(suggestions) < Len(BuiltCandidates)
    /\ Len(suggestions) >= 3

\* the number of combinations of the slots' options
RECURSIVE Combinations(_)
Combinations(vs) ==
    IF vs = <<>> THEN 1 ELSE Len(Head(vs).cased_options) * Combinations(Tail(vs))

\* the built candidates of template t (ids are 0-based)
CandidatesOf(t) == SelectSeq(suggestions, LAMBDA s : s.cand[1].id = t - 1)

\* C3: a template with more combinations than the cap yields no candidate,
\* with a warning and without raising; no template yields more candidates
\* than the cap; a template with exactly cap combinations yields them all.
C3_BoundedExpansion ==
    /\ pc # "raised"
    /\ pc = "built" =>
          /\ \A t \in 1..Len(variants) :
                LET n == Combinations(variants[t])
                    got == Len(CandidatesOf(t))
                IN  /\ n > max_suggestions_count => got = 0
                    /\ got <= max_suggestions_count
                    /\ n = max_suggestions_count => got = n
          /\ warned = Cardinality({t \in 1..Len(variants) :
                                      Combinations(variants[t]) > max_suggestions_count})

\* one template is above the cap and another is exactly at the cap
C3_Witness ==
    /\ pc = "built"
    /\ \E t \in 1..Len(variants) : Combinations(variants[t]) > max_suggestions_count
    /\ \E t \in 1..Len(variants) :
          /\ Combinations(variants[t]) = max_suggestions_count
          /\ Len(CandidatesOf(t)) = max_suggestions_count

\* how many options of slot v have the text x
Multiplicity(v, x) == Cardinality({i \in 1..Len(v.cased_options) : v.cased_options[i] = x})

RECURSIVE ProductOf(_)
ProductOf(ns) == IF ns = <<>> THEN 1 ELSE Head(ns) * ProductOf(Tail(ns))

C10_JoinIdempotent ==
    pc \in {"joined", "rejoined"} =>
        \A sep \in Separators : join_suggestions(sep, suggestions) = suggestions

\* a list with a several-word str has been through the joiner twice
C10_Witness ==
    /\ pc = "rejoined"
    /\ Len(suggestions) >= 2
    /\ \E i \in 1..Len(suggestions) : Len(suggestions[i].str) >= 3
    /\ \E i \in 1..Len(suggestions) : suggestions[i].str = <<>>

\* the alignment of the match has been computed
Aligned == pc # "matched" /\ Len(pattern) > 0

\* the span positions a mapping gives to slot k
PositionsOf(pref, k) ==
    IF k \in Keys(pref) THEN {Get(pref, k)[i] : i \in 1..Len(Get(pref, k))} ELSE {}

NoArity(pat) == ~\E i \in 1..Len(pat) : HasOp(pat[i])

\* C5: for a pattern none of whose slots carries an operator and a span as long
\* as the pattern, the mapping is {i: [i]} for i in 0..n-1 and the matcher was
\* not run
C5_AlignmentIdentity ==
    (Aligned /\ NoArity(pattern) /\ Len(span) = Len(pattern))
        => /\ pattern_ref = IdentityRef(Len(pattern))
           /\ matcher_runs = 0

C5_Witness ==
    /\ pc = "aligned"
    /\ NoArity(pattern)
    /\ Len(pattern) = 2
    /\ Len(span) = 2
    /\ pattern_ref = <<Item(0, <<0>>), Item(1, <<1>>)>>
    /\ matcher_runs = 0

\* C6: in the mapping returned by the alignment, the position lists of different
\* slots are pairwise disjoint, and every position of a slot is smaller than
\* every position of a later slot
C6_MappingInvariant ==
    Aligned =>
        \A i, j \in Keys(pattern_ref) :
            i < j => \A a \in PositionsOf(pattern_ref, i) :
                        \A b \in PositionsOf(pattern_ref, j) : a < b

\* the matcher's acceptance spelled out: the ways the slots pat[k..] can share
\* the tokens of toks from position pos on, each way the sequence of the
\* position lists (Python indices) of those slots
RunLength(p, toks, pos) ==
    LET stops == {q \in pos..Len(toks) : q = Len(toks) \/ ~TokenMatches(toks[q + 1], p)}
    IN  Min(stops) - pos

Takes(p, toks, pos) ==
    LET run == RunLength(p, toks, pos)
    IN  CASE p.op = "1" -> IF run > 0 THEN {1} ELSE {}
          [] p.op = "!" -> IF pos < Len(toks) /\ run = 0 THEN {1} ELSE {}
          [] p.op = "?" -> IF run > 0 THEN {0, 1} ELSE {0}
          [] p.op = "*" -> 0..run
          [] p.op = "+" -> 1..run

RECURSIVE ParsesFrom(_, _, _, _)
ParsesFrom(pat, k, toks, pos) ==
    IF k > Len(pat) THEN (IF pos = Len(toks) THEN {<<>>} ELSE {})
    ELSE UNION {{<<[i \in 1..c |-> pos + i - 1]>> \o rest :
                    rest \in ParsesFrom(pat, k + 1, toks, pos + c)} :
                c \in Takes(pat[k], toks, pos)}

Parses(pat, toks) == ParsesFrom(pat, 1, toks, 0)

\* the match leaves no doubt about which slot consumed which token
Unambiguous == Cardinality(Parses(pattern, span)) = 1
Consumed == CHOOSE c \in Parses(pattern, span) : TRUE

\* the text of the span positions of a position list
TextOf(positions) ==
    SliceText(DocOf(span), StartOf(span) + positions[1],
              StartOf(span) + positions[Len(positions)])

\* the options item i of template t resolves to for this match
ItemOptions(t, i) ==
    get_options(pre_suggestions[t][i], DocOf(span), StartOf(span), EndOf(span),
                pattern_ref).options

\* the items of template t that resolve to at least one option
KeptItems(t) == {i \in 1..Len(pre_suggestions[t]) : ItemOptions(t, i) # <<>>}

\* the j-th smallest element of a set of numbers
RECURSIVE Nth(_, _)
Nth(S, j) == IF j = 1 THEN Min(S) ELSE Nth(S \ {Min(S)}, j - 1)

\* the generator ran for the templates of the rule
Resolved == pre_suggestions # <<>> /\ variants # <<>>

TakingSlots == {k \in 1..Len(pattern) : Consumed[k] # <<>>}

\* the candidate that copies the tokens of every slot that consumed some, in
\* slot order, for the template with id 0
ExpectedCopy ==
    [j \in 1..Cardinality(TakingSlots) |->
        Suggestion(TextOf(Consumed[Nth(TakingSlots, j)]), 1, 0)]

\* C8: when a "*" or "?" slot consumed no token, the template that refers to
\* every slot in turn yields the one suggestion made of the tokens of the slots
\* that consumed some, in template order: the item of the empty slot is left
\* out and every other reference resolves to the tokens of its own slot.
C8_UnmatchedOptionalLeftOut ==
    ( /\ pc \in {"built", "raised"}
      /\ pre_suggestions # <<>>
      /\ Unambiguous
      /\ pre_suggestions[1] = RefsTemplate(0, Len(pattern) - 1)
      /\ \E k \in 1..Len(pattern) : is_droppable(pattern[k]) /\ Consumed[k] = <<>> )
        => /\ pc = "built"
           /\ CandidatesOf(1) = <<Cand(ExpectedCopy)>>

\* C9: when a "*" slot consumed the span positions a..b, the mapping gives that
\* slot exactly the list [a..b], and a PATTERN_REF to the slot, positive or
\* negative, resolves to the single option that is the text of tokens a..b,
\* without a warning.
C9_MultiTokenReferenceCopy ==
    (Aligned /\ Unambiguous) =>
        \A k \in 1..Len(pattern) :
            (pattern[k].op = "*" /\ Consumed[k] # <<>>) =>
                /\ (k - 1) \in Keys(pattern_ref)
                /\ Get(pattern_ref, k - 1) = Consumed[k]
                /\ \A ref \in {k - 1, k - 1 - Len(pattern)} :
                      get_options(RefItem(ref), DocOf(span), StartOf(span),
                                  EndOf(span), pattern_ref)
                          = [options |-> <<TextOf(Consumed[k])>>,
                             warning |-> 0, raised |-> FALSE]

\* the first "?" slot took a token and the second took none: the template that
\* refers to every slot gave the suggestion of the tokens of the first and of
\* the last slot
C8_Witness ==
    /\ pc = "built"
    /\ pattern = <<Slot("x", "?"), Slot("y", "?"), Slot("x", "1")>>
    /\ span = <<"x", "x">>
    /\ Unambiguous
    /\ Consumed = << <<0>>, <<>>, <<1>> >>
    /\ pre_suggestions[1] = RefsTemplate(0, 2)
    /\ CandidatesOf(1) =
           <<Cand(<<Suggestion(Word("w1"), 1, 0), Suggestion(Word("w2"), 1, 0)>>)>>

\* the second "*" slot took the last two tokens after the first "*" slot took
\* one, and the reference -1 copied the text of those two tokens
C9_Witness ==
    /\ pc = "built"
    /\ pattern = <<Slot("x", "*"), Slot("y", "*")>>
    /\ span = <<"x", "y", "y">>
    /\ Unambiguous
    /\ Consumed = << <<0>>, <<1, 2>> >>
    /\ Get(pattern_ref, 1) = <<1, 2>>
    /\ pre_suggestions[1] = TextTemplate \o <<RefItem(-1)>>
    /\ variants[1][2] = SuggestionVariants(<< <<"w2", " ", "w3">> >>, 1, 0)

\* the cropped span of the last token is matched by the cropped patterns of
\* all three slots, and the first of them got the token: slot 0 has a position
\* after the position of slot 1
C6_Witness ==
    /\ pc = "aligned"
    /\ pattern = <<Slot("x", "*"), Slot("y", "?"), Slot("x", "?")>>
    /\ span = <<"x", "y", "x">>
    /\ pattern_ref = <<Item(0, <<0, 2>>), Item(1, <<1>>)>>
    /\ matcher_runs = 1 + Len(span)

\* how many of first, last, before, after a request gives
Given(req) ==
    Cardinality({k \in {"first", "last", "before", "after"} : req[k] # None})

\* a list without the stage x
Without(pl, x) == SelectSeq(pl, LAMBDA y : y # x)

\* the request can be served: a new name, and a before or after that names a
\* stage of the pipeline
Servable(req, pl) ==
    /\ req.name \notin pipe_names(pl)
    /\ req.before # None => req.before \in pipe_names(pl)
    /\ req.after # None => req.after \in pipe_names(pl)

\* C11: addStage with exactly one of first, last, before, after puts the new
\* stage at index 0, at the end, immediately before or immediately after the
\* named stage; the other stages keep their order and the list grows by one.
C11_PositionalInsertion ==
    [][ (request'.op = "add_pipe" /\ Given(request') = 1 /\ Servable(request', pipeline))
            => /\ ~request'.raised
               /\ Len(pipeline') = Len(pipeline) + 1
               /\ Without(pipeline', request'.name) = pipeline
               /\ request'.first # None => IndexOf(pipeline', request'.name) = 0
               /\ request'.last # None =>
                      IndexOf(pipeline', request'.name) = Len(pipeline') - 1
               /\ request'.before # None =>
                      IndexOf(pipeline', request'.name) + 1
                          = IndexOf(pipeline', request'.before)
               /\ request'.after # None =>
                      IndexOf(pipeline', request'.name)
                          = IndexOf(pipeline', request'.after) + 1 ]_vars

\* addStage(garbler, after="filter") on the default stages
C11_Witness ==
    /\ pipeline = <<"sorter", "filter", "garbler", "joiner">>
    /\ request.op = "add_pipe"
    /\ request.name = "garbler"
    /\ request.after = "filter"
    /\ Given(request) = 1
    /\ ~request.raised

\* C12: addStage with more than one of first, last, before, after raises and
\* leaves the pipeline as it was.
C12_MoreThanOnePositionRejected ==
    [][ (request'.op = "add_pipe" /\ Given(request') > 1)
            => request'.raised /\ pipeline' = pipeline ]_vars

\* a new stage with a before and an after that both name stages was rejected
C12_Witness ==
    /\ request.op = "add_pipe"
    /\ request.raised
    /\ request.before # None
    /\ request.after # None
    /\ request.first = None
    /\ request.last = None
    /\ Servable(request, pipeline)
    /\ pipeline = DefaultPipeline

\* C13: addStage with the name of a stage of the pipeline raises and leaves the
\* pipeline as it was; the names of the stages are pairwise distinct after
\* every sequence of addStage and removeStage.
C13_DuplicateNameRejected ==
    /\ [](\A i, j \in 1..Len(pipeline) : pipeline[i] = pipeline[j] => i = j)
    /\ [][ (request'.op = "add_pipe" /\ request'.name \in pipe_names(pipeline))
              => request'.raised /\ pipeline' = pipeline ]_vars

\* after a default stage was removed, a second garbler with one position was
\* rejected
C13_Witness ==
    /\ request.op = "add_pipe"
    /\ request.raised
    /\ request.name = "garbler"
    /\ Given(request) = 1
    /\ request.last # None
    /\ pipeline = <<"filter", "garbler", "joiner">>

\* what matching the matches i.. of a sentence gives on an engine of its own:
\* it raised, or the spans the callbacks appended
RECURSIVE MatchedAlone(_, _, _, _)
MatchedAlone(c, sent, i, cap) ==
    IF i > Len(sent) THEN {[raised |-> FALSE, spans |-> <<>>]}
    ELSE UNION {IF o.raised THEN {[raised |-> TRUE, spans |-> <<>>]}
                ELSE {[raised |-> r.raised,
                       spans |-> IF r.raised THEN <<>>
                                 ELSE <<Span(c, i, o.suggestions)>> \o r.spans] :
                          r \in MatchedAlone(c, sent, i + 1, cap)} :
                   o \in callback(sent[i], cap)}

\* the stages of a pipeline applied one after the other
RECURSIVE StagesAlone(_, _)
StagesAlone(pl, sps) ==
    IF pl = <<>> THEN sps ELSE StagesAlone(Tail(pl), component(Head(pl), sps))

Built == BuiltSuggestions(Expanded(variants, max_suggestions_count))

\* the one-to-one maps of the sorted positions onto the built positions
Orders(n) == {f \in [1..n -> 1..n] : \A p, q \in 1..n : f[p] = f[q] => p = q}

\* C15: under the language-model scorer the sorted suggestions of a span are
\* its built suggestions rearranged, in non-decreasing order of their scores,
\* suggestions of equal score in their built order; a span with fewer than
\* two suggestions is left as it was built.
C15_SortedByScoreStable ==
    (pc = "sorted" /\ scorer = "kenlm") =>
        /\ Len(suggestions) = Len(Built)
        /\ Len(scored) = Len(Built)
        /\ Len(Built) < 2 => suggestions = Built
        /\ \E f \in Orders(Len(Built)) :
              /\ \A p \in 1..Len(Built) : suggestions[p] = Built[f[p]]
              /\ \A p, q \in 1..Len(Built) :
                    p < q => \/ scored[f[p]] < scored[f[q]]
                             \/ scored[f[p]] = scored[f[q]] /\ f[p] < f[q]

\* a span of three suggestions, the first built with the highest score and the
\* other two with equal scores, after the sort
C15_Witness ==
    /\ pc = "sorted"
    /\ scorer = "kenlm"
    /\ Len(scored) = 3
    /\ scored[1] > scored[2]
    /\ scored[2] = scored[3]
    /\ Built[2] # Built[3]
    /\ suggestions = <<Built[2], Built[3], Built[1]>>

\* C16: with the default scorer the sort leaves the suggestions of the span in
\* the order the expansion built them, which any sort by one score for all
\* suggestions does too; the order is a function of the sentence and the rules.
C16_DefaultScorerKeepsOrder ==
    (pc = "sorted" /\ scorer = "default") =>
        /\ suggestions = Built
        /\ \A k \in 0..MaxScore :
              sorted(Built, [i \in 1..Len(Built) |-> k]) = suggestions

\* a span of two suggestions of different texts after the default sort
C16_Witness ==
    /\ pc = "sorted"
    /\ scorer = "default"
    /\ Len(suggestions) >= 2
    /\ Hypothesis(suggestions[1]) # Hypothesis(suggestions[2])

\* C17: under the language-model scorer a suggestion whose hypothesis has fewer
\* than two words gets the sentinel score and stands, after the sort, behind
\* every suggestion of the span whose hypothesis has two words or more.
C17_ShortHypothesisRankedLast ==
    (pc = "sorted" /\ scorer = "kenlm") =>
        /\ \A i \in 1..Len(Built) :
              word_count(context, Built[i]) < 2 => scored[i] = NegInf
        /\ \A p, q \in 1..Len(suggestions) :
              (/\ word_count(context, suggestions[p]) < 2
               /\ word_count(context, suggestions[q]) >= 2) => q < p

\* a span that is its whole sentence, sorted: a suggestion of one word stands
\* before a suggestion of two words that was built before it
C17_Witness ==
    /\ pc = "sorted"
    /\ scorer = "kenlm"
    /\ context = [head |-> 0, tail |-> 0]
    /\ Len(suggestions) = 2
    /\ word_count(context, suggestions[1]) = 1
    /\ word_count(context, suggestions[2]) = 2
    /\ suggestions = <<Built[2], Built[1]>>

\* the results of the callback on match i of a sentence that do not raise
Generates(sent, i, cap) == {o \in callback(sent[i], cap) : ~o.raised}

\* C18: no call on a sentence raises, whatever the generation for one of its
\* matches met (cap exceeded, PATTERN_REF without mapping, empty slot), and a
\* finished call returns, for every match whose generation alone succeeds, the
\* span of that match with the suggestions the pipeline gives it alone.
C18_FailureIsolation ==
    \A c \in CallIds :
        LET call == calls[c]
        IN  /\ call.pc # "raised"
            /\ call.pc = "done" =>
                  \A i \in 1..Len(call.sent) :
                      Generates(call.sent, i, max_suggestions_count) # {} =>
                          \E j \in 1..Len(call.result) :
                             \E o \in Generates(call.sent, i, max_suggestions_count) :
                                <<call.result[j]>>
                                    = StagesAlone(pipeline, <<Span(c, i, o.suggestions)>>)

\* the call on a sentence of two matches has the span of the first match, with
\* its suggestions, when the generation for the second match raises out of
\* the call
C18_Witness ==
    /\ calls[1].pc = "raised"
    /\ Len(calls[1].sent) = 2
    /\ calls[1].i = 2
    /\ Len(spans) = 1
    /\ spans[1].suggestions # <<>>
    /\ Generates(calls[1].sent, 1, max_suggestions_count) # {}
    /\ Generates(calls[1].sent, 2, max_suggestions_count) = {}

\* C19: of two calls on one engine whose steps interleave, each returns the
\* spans and suggestions it returns when it runs alone, and raises only when
\* it raises alone.
C19_ConcurrentCallsSelfContained ==
    \A c \in CallIds :
        LET call == calls[c]
            alone == MatchedAlone(c, call.sent, 1, max_suggestions_count)
        IN  /\ call.pc = "done" =>
                  \E r \in alone :
                      ~r.raised /\ call.result = StagesAlone(pipeline, r.spans)
            /\ call.pc = "raised" => \E r \in alone : r.raised

\* both calls are over, and the first returned a span of the sentence of the
\* second
C19_Witness ==
    /\ calls[1].pc = "done"
    /\ calls[2].pc = "done"
    /\ \E j \in 1..Len(calls[1].result) : calls[1].result[j].doc = 2

\* C20: in calls one after the other on one engine, the span buffer is empty
\* when a call starts, the aligner's matcher holds no pattern between
\* alignments, and a call returns what it returns on a fresh engine: the spans
\* of the matches of its own sentence, and it raises only where it raises there.
C20_NoCrossSentencePersistence ==
    /\ matcher = {}
    /\ \A c \in CallIds :
          LET call == calls[c]
              fresh == MatchedAlone(c, call.sent, 1, max_suggestions_count)
          IN  /\ (call.pc = "matching" /\ call.i = 1) => spans = <<>>
              /\ call.pc = "done" =>
                    /\ \E r \in fresh :
                          ~r.raised /\ call.result = StagesAlone(pipeline, r.spans)
                    /\ \A j \in 1..Len(call.result) :
                          call.result[j].doc = c /\ call.result[j].match = j
              /\ call.pc = "raised" => \E r \in fresh : r.raised

\* the second call of a caller starts on an engine whose aligner still holds
\* the pattern of key CleanLimit that the first call left
C20_Witness ==
    /\ calls[1].n = 2
    /\ calls[1].pc = "matching"
    /\ calls[1].i = 1
    /\ calls[1].sent # <<LongMatch>>
    /\ matcher = {CleanLimit}

\* the flag of a hook: false when absent
FlagOf(hook) == IF hook.match_if_predicate_is = "True" THEN "True" ELSE "False"

\* C21: the callback makes a span of a pattern match if and only if the
\* predicate of every hook of the rule has, on the match, the value of the
\* hook's match_if_predicate_is (false when absent); a rule without hooks
\* accepts every pattern match.
C21_HooksDecideTheMatch ==
    pc \in {"accepted", "rejected"} =>
        /\ (pc = "accepted" <=>
               \A i \in 1..Len(match_hooks) : match_hooks[i].value = FlagOf(match_hooks[i]))
        /\ (pc = "accepted" <=> Len(spans) = 1)

\* a span was made of a match although the second hook of the rule, which
\* asks for False, is True on it: the first hook raised IndexError
C21_Witness ==
    /\ pc = "accepted"
    /\ Len(spans) = 1
    /\ Len(match_hooks) = 2
    /\ match_hooks[1].value = "IndexError"
    /\ match_hooks[2] = Hook("True", None)

\* the pattern slot a PATTERN_REF of value k names: negative values count
\* from the last slot of the pattern
ReferencedSlot(k) == IF k >= 0 THEN k ELSE Len(pattern) + k

\* C22: when the mapping has no entry for the slot a PATTERN_REF item names,
\* get_options does not raise: it warns and gives the text of the one token
\* at doc position start + k for k >= 0 and end + k for k < 0, k being the
\* value written in the template.
C22_PatternRefFallback ==
    (pc = "resolved" /\ ReferencedSlot(template_item.ref) \notin Keys(pattern_ref)) =>
        LET k == template_item.ref
            at == IF k >= 0 THEN StartOf(span) + k ELSE EndOf(span) + k
        IN  /\ ~resolved.raised
            /\ resolved.warning = 1
            /\ InDoc(DocOf(span), at)
            /\ resolved.options = << <<DocAt(DocOf(span), at)>> >>

\* PATTERN_REF -2 in a rule of one slot: the mapping has no slot -1, and the
\* item got the last token of the span, at end - 1, with a warning
C22_Witness ==
    /\ pc = "resolved"
    /\ Len(pattern) = 1
    /\ Len(span) = 1
    /\ template_item = RefItem(-2)
    /\ ~resolved.raised
    /\ resolved.warning = 1
    /\ resolved.options = << <<DocAt(DocOf(span), EndOf(span) - 1)>> >>
    /\ DocAt(DocOf(span), EndOf(span) - 1) # DocAt(DocOf(span), EndOf(span) - 2)

\* C23: for k < 0 the slot a PATTERN_REF item is resolved against is the slot
\* at index (number of pattern slots) + k, for every mapping align returns,
\* those in which some pattern slot has no entry included: the item gets
\* what the item naming that slot from the front gets.
C23_NegativeRefCountsFromLastSlot ==
    (pc = "resolved" /\ template_item.ref < 0
        /\ ReferencedSlot(template_item.ref) \in Keys(pattern_ref)) =>
        resolved = get_options(RefItem(ReferencedSlot(template_item.ref)), DocOf(span),
                               StartOf(span), EndOf(span), pattern_ref)

\* PATTERN_REF -1 resolved against a mapping that has fewer entries than the
\* pattern has slots, the last slot's among them
C23_Witness ==
    /\ pc = "resolved"
    /\ template_item = RefItem(-1)
    /\ Cardinality(Keys(pattern_ref)) < Len(pattern)
    /\ (Len(pattern) - 1) \in Keys(pattern_ref)
    /\ ~resolved.raised

\* the soft cap over n options: min(default, n) when a default is configured
SoftCap(n) ==
    IF generator.default_max_count # 0 THEN Min({generator.default_max_count, n}) ELSE n

\* C24: without filtering, the max count of the resolved slot is the item's
\* MAX_COUNT when it has one, and otherwise min(default cap, n) with a default
\* and n without, n being the number of options the slot finally offers.
C24_MaxCountOverFinalOptions ==
    (pc = "resolved" /\ ~generator.filter_suggestions /\ resolved.kept) =>
        resolved.max_count =
            IF template_item.max_count # 0 THEN template_item.max_count
            ELSE SoftCap(Len(resolved.cased_options))

\* one option that the inflector gave two forms, no cap configured: the slot
\* offers two options under a max count of 1
C24_Witness ==
    /\ pc = "resolved"
    /\ ~generator.filter_suggestions
    /\ generator.default_max_count = 0
    /\ template_item = InflectedItem(<<Word("walk")>>, "VERB",
                                     <<InflectorForms(Word("walk"))>>, 0)
    /\ resolved.cased_options = <<Word("walks"), Word("walked")>>
    /\ resolved.max_count = 1

\* the option set of the item under resolution, as the rules of the filter
\* look at it
OptionSet == {template_item.options[i] : i \in 1..Len(template_item.options)}

\* the cases in which filtering forces the cap down to 1
ForcedToOne ==
    \/ OptionSet = {}
    \/ \E o \in OptionSet : Len(o) > 1 \/ o \in {Word(","), Word("")}
    \/ template_item.inflection \in Inflections \ {"VBD"}
    \/ /\ Len(template_item.options) > 1
       /\ \/ \E i, j \in 1..Len(template_item.options) :
                /\ i < j
                /\ get_lemmas(template_item.options[i])
                      \cap get_lemmas(template_item.options[j]) # {}
          \/ OptionSet \cap {Word("a"), Word("an"), Word("the")} # {}
          \/ {Word("person"), Word("people")} \subseteq OptionSet
          \/ {Word("ox"), Word("oxen")} \subseteq OptionSet

RECURSIVE KeptFrom(_, _, _, _)
KeptFrom(cands, out, p, o) ==
    IF o > Len(out) \/ p > Len(cands) THEN {}
    ELSE IF cands[p] = out[o] THEN {p} \cup KeptFrom(cands, out, p + 1, o + 1)
    ELSE KeptFrom(cands, out, p + 1, o)

\* candidate q of cands was chosen, and with it the cap of its slot i was
\* reached by the chosen candidates that differ from it at slot i at most
CapReached(cands, kept, q, i) ==
    /\ cands[q][i].max_count # NoCap
    /\ Cardinality({r \in kept : r <= q /\ equal_except_nth_place(cands[q], cands[r], i)})
          >= cands[q][i].max_count

GreedyOrderPreserving(cands, out) ==
    LET kept == KeptFrom(cands, out, 1, 1)
    IN  /\ Cardinality(kept) = Len(out)
        /\ cands # <<>> => (out # <<>> /\ out[1] = cands[1])
        /\ \A p \in (1..Len(cands)) \ kept :
              \E q \in kept :
                 /\ q < p
                 /\ cands[q][1].id = cands[p][1].id
                 /\ Len(cands[q]) = Len(cands[p])
                 /\ \E i \in 1..Len(cands[q]) :
                       /\ \A j \in 1..Len(cands[q]) :
                             j # i => cands[q][j].text = cands[p][j].text
                       /\ CapReached(cands, kept, q, i)

\* C26: the output of select is a subsequence of its input that starts with
\* the first input candidate, and a candidate is dropped only if a candidate
\* ranked before it was chosen, comes from the same template, has the same
\* length and has the same text at every slot except one whose cap was reached.
C26_SelectGreedyOrderPreserving ==
    [][(pc = "sorted" /\ pc' = "filtered") =>
          GreedyOrderPreserving(Uncand(suggestions), Uncand(suggestions'))]_vars

\* select kept the first candidate and another one, and dropped a third
C26_Witness ==
    /\ pc = "filtered"
    /\ Len(suggestions) >= 2
    /\ Len(suggestions) < Len(BuiltCandidates)
    /\ suggestions[1].cand = BuiltCandidates[1]
    /\ \E i \in 1..Len(BuiltCandidates[1]) : BuiltCandidates[1][i].max_count = MaxCount

\* the mappings over the reduced pattern that cases II and III hand to
\* shift_pattern_ref for the match of sp by pat
ReducedRefs(sp, pat) ==
    LET r == remove_skipped_ops(sp, pat)
    IN  IF /\ Len(sp) = Len(r.non_op_pattern)
           /\ ~\E i \in 1..Len(r.non_op_pattern) : is_multitoken(r.non_op_pattern[i])
        THEN {IdentityRef(Len(r.non_op_pattern))}
        ELSE RefsFrom(sp, r.non_op_pattern, 0, <<>>)

\* the original index of slot k of the reduced pattern: k slots that were not
\* skipped come before it
OriginalIndex(k, skipped) ==
    CHOOSE x \in 0..(k + Cardinality(skipped)) :
        x \notin skipped /\ Cardinality((0..(x - 1)) \ skipped) = k

Reinserted(d, skipped_idx, out) ==
    LET skipped == {skipped_idx[i] : i \in 1..Len(skipped_idx)}
    IN  /\ Len(out) = Len(d) + Len(skipped_idx)
        /\ \A idx \in skipped : idx \in Keys(out) /\ Get(out, idx) = <<>>
        /\ \A i \in 1..Len(d) : out[i] = Item(OriginalIndex(d[i].k, skipped), d[i].v)

\* C27: shift_pattern_ref, given a mapping over the reduced pattern and the
\* skipped original indices, returns a mapping in which every skipped index
\* maps to the empty list and every other entry is keyed by the original
\* index of its slot, with its list unchanged and in the order the entries
\* had, for any number of skipped slots, adjacent ones included.
C27_SkipReinsertion ==
    (pc = "aligned" /\ matcher_runs > 0) =>
        LET skipped_idx == remove_skipped_ops(span, pattern).skipped_idx
        IN  \A d \in ReducedRefs(span, pattern) :
                Reinserted(d, skipped_idx, shift_pattern_ref(d, skipped_idx))

\* the first two slots of a pattern of three were skipped and the third took
\* the token of the span
C27_Witness ==
    /\ pc = "aligned"
    /\ Len(pattern) = 3
    /\ remove_skipped_ops(span, pattern).skipped_idx = <<0, 1>>
    /\ pattern_ref = <<Item(2, <<0>>), Item(0, <<>>), Item(1, <<>>)>>

\* the match went through case III: the reduced pattern has another length
\* than the span, or a slot that can take several tokens
CaseIII(sp, pat) ==
    LET r == remove_skipped_ops(sp, pat)
    IN  /\ ~(Len(sp) = Len(pat) /\ ~\E i \in 1..Len(pat) : HasOp(pat[i]))
        /\ ~(/\ Len(sp) = Len(r.non_op_pattern)
             /\ ~\E i \in 1..Len(r.non_op_pattern) : is_multitoken(r.non_op_pattern[i]))

\* the lengths of the matches of non_op_pattern[k:] in span[i:] that start at
\* token i itself
AnchoredLengths(non_op_pattern, sp, k, i) ==
    {m[2] : m \in {x \in MatchesOf(Crop(non_op_pattern, k), Crop(sp, i)) : x[1] = 0}}

\* every token of d is with a slot whose cropped pattern matches from that
\* token on, and no other slot's cropped pattern has a longer match from it
AnchoredAssignment(d, non_op_pattern, sp) ==
    \A e \in 1..Len(d) : \A t \in 1..Len(d[e].v) :
        LET k == d[e].k
            i == d[e].v[t]
            own == AnchoredLengths(non_op_pattern, sp, k, i)
        IN  /\ own # {}
            /\ \A k2 \in 0..(Len(non_op_pattern) - 1) :
                  \A l \in AnchoredLengths(non_op_pattern, sp, k2, i) : l <= Max(own)

\* C28: in case C span token i is assigned to slot k only if pattern[k:] has
\* a match in span[i:] that starts at token i, and k is the slot whose such
\* match is longest; a match that begins at a later token of the cropped span
\* never decides the slot of token i.
C28_AnchoredAssignment ==
    (pc = "aligned" /\ CaseIII(span, pattern)) =>
        LET r == remove_skipped_ops(span, pattern)
        IN  \A d \in RefsFrom(span, r.non_op_pattern, 0, <<>>) :
                shift_pattern_ref(d, r.skipped_idx) = pattern_ref =>
                    AnchoredAssignment(d, r.non_op_pattern, span)

\* a token was given to a slot whose cropped pattern has no match that starts
\* at that token
C28_Witness ==
    /\ pc = "aligned"
    /\ CaseIII(span, pattern)
    /\ LET r == remove_skipped_ops(span, pattern)
       IN  \E d \in RefsFrom(span, r.non_op_pattern, 0, <<>>) :
               /\ shift_pattern_ref(d, r.skipped_idx) = pattern_ref
               /\ \E e \in 1..Len(d) : \E t \in 1..Len(d[e].v) :
                     AnchoredLengths(r.non_op_pattern, span, d[e].k, d[e].v[t]) = {}

\* C29: in the mapping of an accepted match every span position is in the
\* list of exactly one slot, a slot without operator, with "+" or with "!" never
\* maps to the empty list, and when the match leaves no doubt about it, every
\* slot that consumed a token maps to a non-empty list, a "?" slot to the list
\* of the token it consumed.
C29_MappingCoverage ==
    Aligned =>
        /\ \A i \in 0..(Len(span) - 1) :
              Cardinality({k \in Keys(pattern_ref) : i \in PositionsOf(pattern_ref, k)}) = 1
        /\ \A k \in 1..Len(pattern) :
              pattern[k].op \in {"1", "+", "!"} => PositionsOf(pattern_ref, k - 1) # {}
        /\ Unambiguous =>
              \A k \in 1..Len(pattern) :
                  /\ Consumed[k] # <<>> => PositionsOf(pattern_ref, k - 1) # {}
                  /\ (pattern[k].op = "?" /\ Consumed[k] # <<>>) =>
                        /\ (k - 1) \in Keys(pattern_ref)
                        /\ Get(pattern_ref, k - 1) = Consumed[k]

\* the "+" slot consumed the one token of the span and maps to the empty
\* list, as the "*" slot before it does: the token is in no list
C29_Witness ==
    /\ pc = "aligned"
    /\ pattern = <<Slot("x", "*"), Slot("x", "+")>>
    /\ span = <<"x">>
    /\ Consumed = << <<>>, <<0>> >>
    /\ pattern_ref = <<Item(0, <<>>), Item(1, <<>>)>>

\* the first pattern slot that carries the template id the item asks for
TaggedSlot == Min(template_item.tagged)

\* C30: when no pattern slot carries the template id of a FROM_TEMPLATE_ID
\* item, or the mapping has no entry or an empty list for the slot that does,
\* resolving the item does not raise: the options are inflected after the
\* token at the slot's own index, with a warning, or are left uninflected.
C30_FromTemplateIdDefensive ==
    (/\ pc = "inflected"
     /\ \/ template_item.tagged = {}
        \/ TaggedSlot \notin Keys(pattern_ref)
        \/ Get(pattern_ref, TaggedSlot) = <<>>) =>
        /\ ~resolved.raised
        /\ \/ resolved.options = template_item.options
           \/ /\ template_item.tagged # {}
              /\ resolved.warning = 1
              /\ InDoc(DocOf(span), StartOf(span) + TaggedSlot)
              /\ resolved.options =
                    Flatten([i \in 1..Len(template_item.options) |->
                                auto_inflect(template_item.options[i],
                                             DocAt(DocOf(span), StartOf(span) + TaggedSlot))])

\* no slot of the pattern carries the template id, and the resolution raised
C30_Witness ==
    /\ pc = "inflected"
    /\ template_item.tagged = {}
    /\ pattern_ref # <<>>
    /\ resolved.raised

====
